---------------------------- MODULE Spec2Model ----------------------------
(***************************************************************************)
(* A model of the census table transformer of censal_2025.                 *)
(*                                                                         *)
(* Texts are sequences of one-character strings, so that strip, split,     *)
(* replace, startswith, float() and the formatting of numbers are computed *)
(* character by character, as the Python code computes them.               *)
(*                                                                         *)
(* Floats are fixed-point numbers: an integer count of 10^-Decimals units  *)
(* (thousandths), plus the value NaN.  Every text fed to float() has at    *)
(* most Decimals fractional digits, which is what the tables written with  *)
(* float_format='%.3f' hold.  The alphabet Chars cannot spell "inf", an    *)
(* exponent or a digit-group underscore, so float() is modelled for signed *)
(* decimal numbers and for "nan".                                          *)
(***************************************************************************)
EXTENDS Integers, Sequences, FiniteSets, TLC

(***************************************************************************)
(* Bounds of the model.                                                    *)
(***************************************************************************)
MaxTextLen == 3
MaxBase == 1010
MaxWhole == 110
MaxCount == 11
MaxRecords == 3
MaxRuns == 2

MaxRows == 3

\* f"{x:.3f}": the number of decimals fmt3 renders.
Decimals == 3

Unit == 10 ^ Decimals

(***************************************************************************)
(* Characters and texts.                                                   *)
(***************************************************************************)
Chars == {"0", "1", "2", ".", "+", "-", " ", "C", "c", "n", "N", "/", "A", "a", "x"}

DigitChar == <<"0", "1", "2", "3", "4", "5", "6", "7", "8", "9">>

Digits == {DigitChar[i] : i \in 1..10}

DigitVal(c) == (CHOOSE i \in 1..10 : DigitChar[i] = c) - 1

LowerLetters == <<"a", "b", "c", "d", "e", "f", "g", "h", "i", "j", "k", "l", "m",
                  "n", "o", "p", "q", "r", "s", "t", "u", "v", "w", "x", "y", "z">>

UpperLetters == <<"A", "B", "C", "D", "E", "F", "G", "H", "I", "J", "K", "L", "M",
                  "N", "O", "P", "Q", "R", "S", "T", "U", "V", "W", "X", "Y", "Z">>

\* str.upper() and str.lower(), character by character.
UpperChar(c) ==
    IF \E i \in 1..26 : LowerLetters[i] = c
    THEN UpperLetters[CHOOSE i \in 1..26 : LowerLetters[i] = c]
    ELSE c

LowerChar(c) ==
    IF \E i \in 1..26 : UpperLetters[i] = c
    THEN LowerLetters[CHOOSE i \in 1..26 : UpperLetters[i] = c]
    ELSE c

Upper(s) == [i \in 1..Len(s) |-> UpperChar(s[i])]

Lower(s) == [i \in 1..Len(s) |-> LowerChar(s[i])]

\* str.replace(a, b) for one-character a and b.
Replace(s, a, b) == [i \in 1..Len(s) |-> IF s[i] = a THEN b ELSE s[i]]

\* str.replace(a, ''): every a removed.
Remove(s, a) == SelectSeq(s, LAMBDA c : c # a)

\* str.strip(): leading and trailing blanks removed.
RECURSIVE LStrip(_)
LStrip(s) == IF Len(s) > 0 /\ s[1] = " " THEN LStrip(Tail(s)) ELSE s

RECURSIVE RStripChar(_, _)
RStripChar(s, c) ==
    IF Len(s) > 0 /\ s[Len(s)] = c THEN RStripChar(SubSeq(s, 1, Len(s) - 1), c) ELSE s

Strip(s) == RStripChar(LStrip(s), " ")

\* c in s
Contains(s, c) == \E i \in 1..Len(s) : s[i] = c

\* The position of the first c of s (s holds one).
IndexOf(s, c) == CHOOSE i \in 1..Len(s) : s[i] = c /\ \A j \in 1..(i - 1) : s[j] # c

\* s.split(c, 1): the parts before and after the first c.
SplitFirst(s, c) ==
    LET i == IndexOf(s, c)
    IN  <<SubSeq(s, 1, i - 1), SubSeq(s, i + 1, Len(s))>>

StartsWith(s, p) == Len(s) >= Len(p) /\ SubSeq(s, 1, Len(p)) = p

EndsWith(s, c) == Len(s) > 0 /\ s[Len(s)] = c

\* s[:-1]
DropLast(s) == SubSeq(s, 1, Len(s) - 1)

\* str.isdigit(): not empty, and every character a digit.
IsDigitStr(s) == Len(s) > 0 /\ \A i \in 1..Len(s) : s[i] \in Digits

\* int(s) for a text of digits.
RECURSIVE IntOf(_)
IntOf(s) == IF Len(s) = 0 THEN 0 ELSE 10 * IntOf(DropLast(s)) + DigitVal(s[Len(s)])

\* The decimal digits of n >= 0.
RECURSIVE NatText(_)
NatText(n) ==
    IF n < 10 THEN <<DigitChar[n + 1]>>
    ELSE NatText(n \div 10) \o <<DigitChar[(n % 10) + 1]>>

\* n >= 0 as exactly w digits, zeros in front.
RECURSIVE ZeroPad(_, _)
ZeroPad(n, w) == IF w = 0 THEN <<>> ELSE ZeroPad(n \div 10, w - 1) \o <<DigitChar[(n % 10) + 1]>>

(***************************************************************************)
(* Floats.                                                                 *)
(***************************************************************************)
Fl(v) == [nan |-> FALSE, v |-> v]

NaN == [nan |-> TRUE, v |-> 0]

\* a + b on floats: NaN absorbs.
FAdd(a, b) == IF a.nan \/ b.nan THEN NaN ELSE Fl(a.v + b.v)

\* An unsigned decimal literal: digits with at most one point, one digit at least.
IsDecimal(s) ==
    /\ \A i \in 1..Len(s) : s[i] \in Digits \cup {"."}
    /\ \E i \in 1..Len(s) : s[i] \in Digits
    /\ Cardinality({i \in 1..Len(s) : s[i] = "."}) <= 1

\* The value of an unsigned decimal literal, in units of 10^-Decimals.
DecimalValue(s) ==
    IF Contains(s, ".")
    THEN LET parts == SplitFirst(s, ".")
             frac  == parts[2]
         IN  IntOf(parts[1]) * Unit + IntOf(frac) * (10 ^ (Decimals - Len(frac)))
    ELSE IntOf(s) * Unit

\* float(text): [ok |-> FALSE] stands for ValueError.
FloatParse(s0) ==
    LET s      == Strip(s0)
        signed == Len(s) > 0 /\ s[1] \in {"+", "-"}
        body   == IF signed THEN Tail(s) ELSE s
        neg    == signed /\ s[1] = "-"
    IN  IF Lower(body) = <<"n", "a", "n">>
        THEN [ok |-> TRUE, f |-> NaN]
        ELSE IF IsDecimal(body)
        THEN [ok |-> TRUE, f |-> Fl(IF neg THEN 0 - DecimalValue(body) ELSE DecimalValue(body))]
        ELSE [ok |-> FALSE, f |-> Fl(0)]

(***************************************************************************)
(* Cells of a data frame: a missing value (NaN, pd.NA), a Python number or *)
(* a text.                                                                 *)
(***************************************************************************)
NACell == [kind |-> "na", f |-> 0, s |-> <<>>]

NumCell(v) == [kind |-> "num", f |-> v, s |-> <<>>]

StrCell(s) == [kind |-> "str", f |-> 0, s |-> s]

\* pd.isna(x)
IsNA(x) == x.kind = "na"

\* The triple parse_val returns for a value that is not there.
Absent3 == [base |-> Fl(0), k |-> 0, had |-> FALSE]

\* The coefficient in front of a marker: 1 when empty or not a number.
Coef(coef_str) == IF coef_str = <<>> THEN 1 ELSE IF IsDigitStr(coef_str) THEN IntOf(coef_str) ELSE 1

\* parse_val of _append_checksum_row: (base, k, had_value).
parse_val(x) ==
    IF IsNA(x) THEN Absent3
    ELSE IF x.kind = "num" THEN [base |-> Fl(x.f), k |-> 0, had |-> TRUE]
    ELSE
      LET s      == Strip(x.s)
          s_norm == Replace(s, "c", "C")
          direct == FloatParse(s_norm)
      IN  IF s = <<>> \/ Lower(s) = <<"n", "a", "n">> THEN Absent3
          ELSE IF s_norm = <<"C">> THEN [base |-> Fl(0), k |-> 1, had |-> TRUE]
          ELSE IF Upper(s_norm) = <<"N", "/", "A">> THEN [base |-> Fl(0), k |-> 0, had |-> TRUE]
          ELSE IF direct.ok THEN [base |-> direct.f, k |-> 0, had |-> TRUE]
          ELSE IF Contains(s_norm, "+")
          THEN LET parts    == SplitFirst(s_norm, "+")
                   base_str == Strip(parts[1])
                   rest     == Remove(Strip(parts[2]), " ")
                   base     == FloatParse(base_str)
               IN  IF ~base.ok THEN Absent3
                   ELSE IF EndsWith(rest, "C") \/ EndsWith(rest, "n")
                   THEN [base |-> base.f, k |-> Coef(DropLast(rest)), had |-> TRUE]
                   ELSE [base |-> base.f, k |-> 0, had |-> TRUE]
          ELSE LET t == Remove(s_norm, " ")
               IN  IF EndsWith(t, "C") \/ EndsWith(t, "n")
                   THEN IF IsDigitStr(DropLast(t))
                        THEN [base |-> Fl(0), k |-> IntOf(DropLast(t)), had |-> TRUE]
                        ELSE [base |-> Fl(0), k |-> 1, had |-> TRUE]
                   ELSE Absent3

\* fmt3: f"{x:.3f}" with the trailing zeros, then a trailing point, stripped.
Fixed3(f) ==
    IF f.nan THEN <<"n", "a", "n">>
    ELSE LET a == IF f.v < 0 THEN 0 - f.v ELSE f.v
         IN  (IF f.v < 0 THEN <<"-">> ELSE <<>>)
               \o NatText(a \div Unit) \o <<".">> \o ZeroPad(a % Unit, Decimals)


\* s.rstrip('0.') strips zeros and points alike: "10.000" becomes "1".
fmt3_strip_set(f) ==
    LET s == Fixed3(f)
        RECURSIVE StripSet(_)
        StripSet(u) == IF Len(u) > 0 /\ u[Len(u)] \in {"0", "."} THEN StripSet(DropLast(u)) ELSE u
    IN  StripSet(s)

fmt3(f) ==
    LET s == Fixed3(f)
    IN  IF Contains(s, ".") THEN RStripChar(RStripChar(s, "0"), ".") ELSE s

\* The accumulator of one column of _append_checksum_row, before any cell.
NoSum == [base |-> Fl(0), k |-> 0, had |-> FALSE]

\* A checksum cell that is written whether a value was seen or not.
checksum_cell_always(acc) ==
    IF acc.k <= 0 THEN StrCell(fmt3(acc.base))
    ELSE IF acc.k = 1 THEN StrCell(fmt3(acc.base) \o <<" ", "+", " ", "C">>)
    ELSE StrCell(fmt3(acc.base) \o <<" ", "+", " ">> \o NatText(acc.k) \o <<"C">>)

\* The checksum cell of a column from its sums (base_sum, k_sum, had_any).
checksum_cell(acc) ==
    IF ~acc.had THEN NACell
    ELSE LET base_str == fmt3(acc.base)
         IN  IF acc.k <= 0 THEN StrCell(base_str)
             ELSE IF acc.k = 1 THEN StrCell(base_str \o <<" ", "+", " ", "C">>)
             ELSE StrCell(base_str \o <<" ", "+", " ">> \o NatText(acc.k) \o <<"C">>)

(***************************************************************************)
(* Data frames: an ordered list of column names (the activity-label column *)
(* is apart, as the label of each row) and an ordered list of rows.        *)
(***************************************************************************)
Frame(cols, rows) == [cols |-> cols, rows |-> rows]

Row(label, cells) == [label |-> label, cells |-> cells]

\* The column names of a frame, as a set.
ColSet(cols) == {cols[i] : i \in 1..Len(cols)}

\* 'Sector '
SectorPrefix == <<"S", "e", "c", "t", "o", "r", " ">>

\* .str.startswith('Sector ')
IsSector(label) == StartsWith(label, SectorPrefix)

\* The rows of a frame that a mask keeps, in order.
SectorRows(df) == SelectSeq(df.rows, LAMBDA r : IsSector(r.label))

\* A mask that keeps every row: the Total row is summed with the sectors.
mask_all_rows(df) == df.rows

mask_sector(df) == SectorRows(df)

\* One turn of the loop over the cells of a column: lines 105-112.
AddParsed(acc, p) ==
    IF p.had
    THEN [base |-> FAdd(acc.base, IF p.base.nan THEN Fl(0) ELSE p.base),
          k    |-> acc.k + p.k,
          had  |-> TRUE]
    ELSE acc

\* The sums (base_sum, k_sum, had_any) of a column over the masked rows.
RECURSIVE ColumnSums(_, _)
ColumnSums(rows, col) ==
    IF rows = <<>> THEN NoSum
    ELSE AddParsed(ColumnSums(DropLast(rows), col), parse_val(rows[Len(rows)].cells[col]))

\* 'checksum'
ChecksumLabel == <<"c", "h", "e", "c", "k", "s", "u", "m">>

\* _append_checksum_row(wide_df): the frame with the checksum row appended;
\* an empty frame is returned as it is.
append_checksum_row(df) ==
    IF df.rows = <<>> THEN df
    ELSE LET new_row == Row(ChecksumLabel,
                            [c \in ColSet(df.cols) |->
                                checksum_cell(ColumnSums(mask_sector(df), c))])
         IN  Frame(df.cols, Append(df.rows, new_row))

(***************************************************************************)
(* build_tam_regional_wide_csvs.                                           *)
(***************************************************************************)
\* The characters of the texts that are sorted, in code point order.
AsciiOrder ==
    <<" ", "+", "-", ".", "/">> \o DigitChar \o UpperLetters \o <<"_">> \o LowerLetters
      \o <<"ñ">>

Ord(c) == CHOOSE i \in 1..Len(AsciiOrder) : AsciiOrder[i] = c

\* a < b on Python strings.
RECURSIVE StrLess(_, _)
StrLess(a, b) ==
    IF b = <<>> THEN FALSE
    ELSE IF a = <<>> THEN TRUE
    ELSE IF a[1] = b[1] THEN StrLess(Tail(a), Tail(b))
    ELSE Ord(a[1]) < Ord(b[1])

\* sorted(S) for a set of texts.
RECURSIVE SortedTexts(_)
SortedTexts(S) ==
    IF S = {} THEN <<>>
    ELSE LET m == CHOOSE x \in S : \A y \in S \ {x} : StrLess(x, y)
         IN  <<m>> \o SortedTexts(S \ {m})

regions_map_overlap ==
    << [region |-> <<"F", "r", "o", "n", "t", "e", "r", "a">>,
        municipios |-> <<"027 Nuevo Laredo", "002 Aldama">>],
       [region |-> <<"S", "u", "r">>,
        municipios |-> <<"002 Aldama", "003 Altamira", "009 Ciudad Madero", "038 Tampico">>] >>

regions_map ==
    << [region |-> <<"F", "r", "o", "n", "t", "e", "r", "a">>,
        municipios |-> <<"027 Nuevo Laredo">>],
       [region |-> <<"R", "i", "b", "e", "r", "e", "ñ", "a">>,
        municipios |-> <<"007 Camargo", "014 Guerrero", "015 Gustavo Díaz Ordaz", "024 Mier",
                         "025 Miguel Alemán">>],
       [region |-> <<"R", "e", "y", "n", "o", "s", "a">>,
        municipios |-> <<"005 Burgos", "032 Reynosa", "033 Río Bravo", "023 Méndez">>],
       [region |-> <<"M", "a", "t", "a", "m", "o", "r", "o", "s">>,
        municipios |-> <<"010 Cruillas", "035 San Fernando", "022 Matamoros", "040 Valle Hermoso">>],
       [region |-> <<"C", "e", "n", "t", "r", "o">>,
        municipios |-> <<"001 Abasolo", "008 Casas", "013 Güémez", "016 Hidalgo", "018 Jiménez",
                         "019 Llera", "020 Mainero", "030 Padilla", "034 San Carlos",
                         "036 San Nicolás", "037 Soto la Marina", "041 Victoria", "042 Villagrán">>],
       [region |-> <<"M", "a", "n", "t", "e">>,
        municipios |-> <<"004 Antiguo Morelos", "006 Bustamante", "017 Jaumave", "026 Miquihuana",
                         "031 Palmillas", "039 Tula", "021 El Mante", "011 Gómez Farías",
                         "012 González", "028 Nuevo Morelos", "029 Ocampo", "043 Xicoténcatl">>],
       [region |-> <<"S", "u", "r">>,
        municipios |-> <<"002 Aldama", "003 Altamira", "009 Ciudad Madero", "038 Tampico">>] >>

\* parse_cell: (base, c_count).
parse_cell(x) ==
    IF IsNA(x) THEN [base |-> Fl(0), c |-> 0]
    ELSE IF x.kind = "num" THEN [base |-> Fl(x.f), c |-> 0]
    ELSE
      LET s      == Strip(x.s)
          s_norm == Replace(s, "c", "C")
          direct == FloatParse(s_norm)
      IN  IF s = <<>> \/ Lower(s) = <<"n", "a", "n">> THEN [base |-> Fl(0), c |-> 0]
          ELSE IF Upper(s_norm) = <<"N", "/", "A">> THEN [base |-> Fl(0), c |-> 0]
          ELSE IF s_norm = <<"C">> THEN [base |-> Fl(0), c |-> 1]
          ELSE IF direct.ok THEN [base |-> direct.f, c |-> 0]
          ELSE IF Contains(s_norm, "+")
          THEN LET parts    == SplitFirst(s_norm, "+")
                   base_str == Strip(parts[1])
                   rest     == Remove(Strip(parts[2]), " ")
                   parsedb  == FloatParse(base_str)
                   base     == IF parsedb.ok THEN parsedb.f ELSE Fl(0)
               IN  IF EndsWith(rest, "C") \/ EndsWith(rest, "n")
                   THEN [base |-> base, c |-> Coef(DropLast(rest))]
                   ELSE [base |-> base, c |-> 0]
          ELSE LET t == Remove(s_norm, " ")
               IN  IF (EndsWith(t, "C") \/ EndsWith(t, "n")) /\ IsDigitStr(DropLast(t))
                   THEN [base |-> Fl(0), c |-> IntOf(DropLast(t))]
                   ELSE [base |-> Fl(0), c |-> 0]

\* A format_sum that writes the marker without its count.
format_sum_no_count(base_sum, c_sum) ==
    IF c_sum <= 0 THEN fmt3(base_sum) ELSE fmt3(base_sum) \o <<" ", "+", " ", "C">>

format_sum(base_sum, c_sum) ==
    LET base_str == fmt3(base_sum)
    IN  IF c_sum <= 0 THEN base_str
        ELSE IF c_sum = 1 THEN base_str \o <<" ", "+", " ", "C">>
        ELSE base_str \o <<" ", "+", " ">> \o NatText(c_sum) \o <<"C">>

\* The directory of municipal files maps the name of each file that exists to
\* the frame pd.read_csv gives for it.
NoFiles == [m \in {} |-> Frame(<<>>, <<>>)]

\* path.exists()
FileExists(files, m) == m \in DOMAIN files

\* The frames of the files of a region that exist, in the order of its list.
LoadMuniDfs(files, municipios) ==
    LET present == SelectSeq(municipios, LAMBDA m : FileExists(files, m))
    IN  [i \in 1..Len(present) |-> files[present[i]]]

\* A frame with the columns of cols_order, the missing ones filled with pd.NA.
Normalize(dfm, other_cols) ==
    LET have == ColSet(dfm.cols)
    IN  Frame(other_cols,
              [i \in 1..Len(dfm.rows) |->
                  Row(dfm.rows[i].label,
                      [c \in ColSet(other_cols) |->
                          IF c \in have THEN dfm.rows[i].cells[c] ELSE NACell])])

\* The cell of the first row of dfm with this activity, pd.NA when there is none.
MatchCell(dfm, act, col) ==
    LET hits == SelectSeq(dfm.rows, LAMBDA r : r.label = act)
    IN  IF hits = <<>> THEN NACell ELSE hits[1].cells[col]

\* A turn that keeps the last cell only.
AddCell_last(acc, p) == p

\* One turn of the loop over the frames: base_sum += b; c_sum += c.
AddCell(acc, p) == [base |-> FAdd(acc.base, p.base), c |-> acc.c + p.c]

\* The sums (base_sum, c_sum) over the cells of a list: no cell is skipped.
RECURSIVE CellSums(_)
CellSums(cells) ==
    IF cells = <<>> THEN [base |-> Fl(0), c |-> 0]
    ELSE AddCell(CellSums(DropLast(cells)), parse_cell(cells[Len(cells)]))

\* The cell that holds the sums (base_sum, c_sum).
SumCell(sums) == StrCell(format_sum(sums.base, sums.c))

\* The regional cell of an activity and a column.
RegionalCell(norm_dfs, act, col) ==
    SumCell(CellSums([i \in 1..Len(norm_dfs) |-> MatchCell(norm_dfs[i], act, col)]))

\* The sector rows of the regional frame: the activities of the first frame.
RegionalRows(norm_dfs, other_cols) ==
    LET activities == SectorRows(norm_dfs[1])
    IN  [i \in 1..Len(activities) |->
            Row(activities[i].label,
                [c \in ColSet(other_cols) |-> RegionalCell(norm_dfs, activities[i].label, c)])]

\* The source dataset: unreadable (df_saic = None), or its records, each with
\* the value of one metric column, of the code it names.
NoDataset == [readable |-> FALSE, recs |-> <<>>]

Dataset(recs) == [readable |-> TRUE, recs |-> recs]

\* The code of the metric column: the text before the first blank of its name.
MetricCode == <<"A", "1", "1", "1", "A">>

\* The 'Total municipal' records of the municipalities of a region.
TotalRecords(saic, municipios) ==
    SelectSeq(saic.recs,
              LAMBDA r : /\ r.ent = "28 Tamaulipas"
                         /\ \E j \in 1..Len(municipios) : municipios[j] = r.mun
                         /\ r.act = "Total municipal")

\* groupby('Año Censal').sum(min_count=1) of one year: pd.NA when no record of
\* the year holds a value.
RECURSIVE SumValues(_)
SumValues(recs) ==
    IF recs = <<>> THEN 0 ELSE SumValues(DropLast(recs)) + recs[Len(recs)].val.f

YearTotal(df_tot, year) ==
    LET vals == SelectSeq(df_tot, LAMBDA r : r.year = year /\ ~IsNA(r.val))
    IN  IF vals = <<>> THEN NACell ELSE StrCell(fmt3(Fl(SumValues(vals))))

\* total_row[col] = tot_map.get(col, pd.NA)
DirectTotalCell(df_tot, col) ==
    LET hit == {i \in 1..Len(df_tot) : df_tot[i].code \o <<"_">> \o df_tot[i].year = col}
    IN  IF hit = {} THEN NACell
        ELSE YearTotal(SelectSeq(df_tot, LAMBDA r : r.code = df_tot[CHOOSE i \in hit : TRUE].code),
                       df_tot[CHOOSE i \in hit : TRUE].year)

\* The fallback Total cell: the sums over the column of the sector rows.
FallbackTotalCell(rows, col) ==
    SumCell(CellSums([i \in 1..Len(rows) |-> rows[i].cells[col]]))

TotalPrefix == <<"T", "o", "t", "a", "l", " ">>

TotalRow_fallback(entry, other_cols, rows, df_tot) ==
    Row(TotalPrefix \o entry.region, [c \in ColSet(other_cols) |-> FallbackTotalCell(rows, c)])

\* The Total row of a region: from the dataset's records when there are any,
\* else from the sector rows.
TotalRow(entry, other_cols, rows, df_tot) ==
    Row(TotalPrefix \o entry.region,
        [c \in ColSet(other_cols) |->
            IF df_tot # <<>> THEN DirectTotalCell(df_tot, c) ELSE FallbackTotalCell(rows, c)])

\* The frame of a region from its sector rows.  The fallback raises KeyError
\* when there is no sector row, for the frame of sector rows has no column then.
CloseRegion(entry, other_cols, rows, df_tot) ==
    IF df_tot = <<>> /\ rows = <<>> /\ other_cols # <<>>
    THEN [raised |-> TRUE, df |-> Frame(<<>>, <<>>)]
    ELSE [raised |-> FALSE,
          df |-> append_checksum_row(
                    Frame(other_cols, Append(rows, TotalRow(entry, other_cols, rows, df_tot))))]

\* The frames normalised to the union of their columns, sorted.
NormalizeAll(muni_dfs, other_cols) ==
    [i \in 1..Len(muni_dfs) |-> Normalize(muni_dfs[i], other_cols)]

AggregateRegion(entry, muni_dfs, other_cols, df_tot) ==
    CloseRegion(entry, other_cols, RegionalRows(NormalizeAll(muni_dfs, other_cols), other_cols), df_tot)

\* One region that has a municipal file at least: [raised, df].
BuildRegionFrom(entry, muni_dfs, saic) ==
    AggregateRegion(entry, muni_dfs,
                    SortedTexts(UNION {ColSet(muni_dfs[i].cols) : i \in 1..Len(muni_dfs)}),
                    IF saic.readable THEN TotalRecords(saic, entry.municipios) ELSE <<>>)

BuildRegion(files, saic, entry) ==
    BuildRegionFrom(entry, LoadMuniDfs(files, entry.municipios), saic)

\* The loop over the regions from the n-th on: the files written, and whether
\* it raised.
RECURSIVE BuildRegions(_, _, _, _)
RECURSIVE WriteRegion(_, _, _, _, _)
BuildRegions(files, saic, n, outputs) ==
    IF n > Len(regions_map) THEN [outputs |-> outputs, raised |-> FALSE]
    ELSE IF LoadMuniDfs(files, regions_map[n].municipios) = <<>>
    THEN BuildRegions(files, saic, n + 1, outputs)
    ELSE WriteRegion(files, saic, n, outputs, BuildRegion(files, saic, regions_map[n]))

\* The end of one turn of the loop: the frame of the region is written, and
\* the loop goes on; an exception ends the loop.
WriteRegion(files, saic, n, outputs, this) ==
    IF this.raised THEN [outputs |-> outputs, raised |-> TRUE]
    ELSE BuildRegions(files, saic, n + 1,
                      Append(outputs, [region |-> regions_map[n].region, df |-> this.df]))

build_tam_regional_wide_csvs(files, saic) == BuildRegions(files, saic, 1, <<>>)

\* A line of standard output: what it says and what it is about.
Line(kind, about) == [kind |-> kind, about |-> about]

\* main(): 'Wrote Regional CSV to: ...' for every file, or 'No regional CSVs
\* were generated'; build_tam_regional_wide_csvs itself prints nothing.
main_regional_stdout(res) ==
    IF res.raised THEN <<>>
    ELSE IF res.outputs = <<>> THEN <<Line("none", <<>>)>>
    ELSE [i \in 1..Len(res.outputs) |-> Line("wrote", res.outputs[i].region)]

(***************************************************************************)
(* process_saic.py.  The input is a list of records, each with the value   *)
(* of one variable column, 'A111A ...', whose code is MetricCode.  The     *)
(* census year and the value are the numbers pd.to_numeric gives; the      *)
(* years of the records are census years, and Municipio is stripped.       *)
(***************************************************************************)
regions ==
    << [region |-> <<"F", "r", "o", "n", "t", "e", "r", "a">>,
        municipios |-> <<"027 Nuevo Laredo">>],
       [region |-> <<"R", "i", "b", "e", "r", "e", "ñ", "a">>,
        municipios |-> <<"007 Camargo", "014 Guerrero", "015 Gustavo Díaz Ordaz", "024 Mier",
                         "025 Miguel Alemán">>],
       [region |-> <<"R", "e", "y", "n", "o", "s", "a">>,
        municipios |-> <<"005 Burgos", "032 Reynosa", "033 Río Bravo", "023 Méndez">>],
       [region |-> <<"M", "a", "t", "a", "m", "o", "r", "o", "s">>,
        municipios |-> <<"010 Cruillas", "035 San Fernando", "022 Matamoros", "040 Valle Hermoso">>],
       [region |-> <<"C", "e", "n", "t", "r", "o">>,
        municipios |-> <<"001 Abasolo", "008 Casas", "013 Güémez", "016 Hidalgo", "018 Jiménez",
                         "019 Llera", "020 Mainero", "030 Padilla", "034 San Carlos",
                         "036 San Nicolás", "037 Soto la Marina", "041 Victoria", "042 Villagrán">>],
       [region |-> <<"M", "a", "n", "t", "e">>,
        municipios |-> <<"004 Antiguo Morelos", "006 Bustamante", "017 Jaumave", "026 Miquihuana",
                         "031 Palmillas", "039 Tula", "021 El Mante", "011 Gómez Farías",
                         "012 González", "028 Nuevo Morelos", "029 Ocampo", "043 Xicoténcatl">>],
       [region |-> <<"S", "u", "r">>,
        municipios |-> <<"002 Aldama", "003 Altamira", "009 Ciudad Madero", "038 Tampico">>] >>

YEARS == <<2008, 2013, 2018, 2023>>

\* The position after the blanks, and after the digits, that begin at i.
RECURSIVE SkipBlanks(_, _)
SkipBlanks(s, i) == IF i <= Len(s) /\ s[i] = " " THEN SkipBlanks(s, i + 1) ELSE i

RECURSIVE SkipDigits(_, _)
SkipDigits(s, i) == IF i <= Len(s) /\ s[i] \in Digits THEN SkipDigits(s, i + 1) ELSE i

\* The end of (-\d+)?\s* from position j on.
AfterCode(s, j) ==
    IF j <= Len(s) /\ s[j] = "-" /\ SkipDigits(s, j + 1) > j + 1
    THEN SkipBlanks(s, SkipDigits(s, j + 1))
    ELSE SkipBlanks(s, j)

\* The end of \d+(-\d+)?\s* from position j on; j itself when no digit is there.
AfterDigits(s, j) == IF SkipDigits(s, j) > j THEN AfterCode(s, SkipDigits(s, j)) ELSE j

\* The position after a match of Sector\s*\d+(-\d+)?\s* that begins at i;
\* i itself when none begins there.
MatchEnd(s, i) ==
    IF /\ i + 5 <= Len(s)
       /\ SubSeq(s, i, i + 5) = <<"S", "e", "c", "t", "o", "r">>
       /\ AfterDigits(s, SkipBlanks(s, i + 6)) > SkipBlanks(s, i + 6)
    THEN AfterDigits(s, SkipBlanks(s, i + 6))
    ELSE i

\* re.sub(r'Sector\s*\d+(-\d+)?\s*', '', s), from position i on.
RECURSIVE CleanFrom(_, _)
CleanFrom(s, i) ==
    IF i > Len(s) THEN <<>>
    ELSE IF MatchEnd(s, i) > i THEN CleanFrom(s, MatchEnd(s, i))
    ELSE <<s[i]>> \o CleanFrom(s, i + 1)

clean_sectores_column(df) ==
    Frame(df.cols, [i \in 1..Len(df.rows) |-> Row(CleanFrom(df.rows[i].label, 1), df.rows[i].cells)])

\* df[col].sum()
RECURSIVE ColumnTotal(_, _)
ColumnTotal(rows, col) ==
    IF rows = <<>> THEN 0 ELSE ColumnTotal(DropLast(rows), col) + rows[Len(rows)].cells[col]

add_total_row_to_df(df) ==
    Frame(df.cols,
          Append(df.rows, Row(<<"T", "o", "t", "a", "l">>,
                              [c \in ColSet(df.cols) |-> ColumnTotal(df.rows, c)])))

\* The sum of the variable over a list of records.
RECURSIVE SumVal(_)
SumVal(recs) == IF recs = <<>> THEN 0 ELSE recs[1].val + SumVal(Tail(recs))

\* f"{code}_{year}"
ColName(code, year) == code \o <<"_">> \o NatText(year)

\* The activities of a list of records, in the order they first appear.
RECURSIVE Unique(_)
Unique(recs) ==
    IF recs = <<>> THEN <<>>
    ELSE IF \E i \in 1..(Len(recs) - 1) : recs[i].act = recs[Len(recs)].act
    THEN Unique(DropLast(recs))
    ELSE Append(Unique(DropLast(recs)), recs[Len(recs)].act)

ActivitiesOf(recs) == {recs[i].act : i \in 1..Len(recs)}

\* The two tables of export_nation_state_wide_csvs.
Entidades ==
    << [entidad |-> "00 Total Nacional", label |-> "00_Total_Nacional", split |-> "A111A_Nacional"],
       [entidad |-> "28 Tamaulipas", label |-> "28_Tamaulipas", split |-> "A111A_Tamaulipas"] >>

\* df_filtered: the records of an entity that have no municipality, of the years asked.
EntityRecords(df, e) == SelectSeq(df, LAMBDA r : r.ent = e.entidad /\ r.mun = "")

InYears(recs, years) ==
    SelectSeq(recs, LAMBDA r : \E i \in 1..Len(years) : years[i] = r.year)

\* pivot_table(index=activity, columns=year, aggfunc=sum, fill_value=0), its
\* columns named code_year and sorted.
PivotYears(recs, activities, cols) ==
    Frame(cols,
          [i \in 1..Len(activities) |->
              Row(activities[i],
                  [c \in ColSet(cols) |->
                      SumVal(SelectSeq(recs, LAMBDA r : /\ r.act = activities[i]
                                                        /\ ColName(MetricCode, r.year) = c))])])

\* df_wide of an entity, with its Total row.
EntityWide(recs) ==
    add_total_row_to_df(
        clean_sectores_column(
            PivotYears(recs, SortedTexts(ActivitiesOf(recs)),
                       SortedTexts({ColName(MetricCode, recs[i].year) : i \in 1..Len(recs)}))))

\* The texts pd.read_csv reads as a missing value.
NaTexts ==
    { <<>>, <<"N", "/", "A">>, <<"N", "A">>, <<"N", "U", "L", "L">>, <<"N", "a", "N">>,
      <<"N", "o", "n", "e">>, <<"n", "/", "a">>, <<"n", "a", "n">>, <<"n", "u", "l", "l">> }

\* The file of one variable, cut from the wide file as pd.read_csv reads it:
\* a label that reads as missing is written empty.
SplitByCode(df, code) ==
    Frame(SortedTexts({c \in ColSet(df.cols) : StartsWith(c, code)}),
          [i \in 1..Len(df.rows) |->
              Row(IF df.rows[i].label \in NaTexts THEN <<>> ELSE df.rows[i].label,
                  [c \in {d \in ColSet(df.cols) : StartsWith(d, code)} |-> df.rows[i].cells[c]])])

FileKey(folder, file) == [folder |-> folder, file |-> file]

\* The files of one entity: none when it has no record.
EntityFiles(wide_df, e) ==
    [k \in {FileKey(e.label, e.label), FileKey(e.label, e.split)} |->
        IF k.file = e.label THEN wide_df ELSE SplitByCode(wide_df, MetricCode)]

NoSaicFiles == [k \in {} |-> Frame(<<>>, <<>>)]

export_nation_state_wide_csvs(df, years) ==
    [k \in UNION {{FileKey(Entidades[n].label, Entidades[n].label),
                   FileKey(Entidades[n].label, Entidades[n].split)} :
                     n \in {m \in 1..Len(Entidades) : EntityRecords(df, Entidades[m]) # <<>>}} |->
        EntityFiles(EntityWide(InYears(EntityRecords(df, Entidades[
                        CHOOSE n \in 1..Len(Entidades) : Entidades[n].label = k.folder]), years)),
                    Entidades[CHOOSE n \in 1..Len(Entidades) : Entidades[n].label = k.folder])[k]]

\* The records of the municipalities of a region.
RegionRecords(df, entry) ==
    SelectSeq(df, LAMBDA r : /\ \E j \in 1..Len(entry.municipios) : entry.municipios[j] = r.mun
                             /\ r.mun # "")

\* The columns (region, year) of the regional table, named region_year.
RegionCols(regions_local) ==
    [k \in 1..(Len(regions_local) * Len(YEARS)) |->
        ColName(regions_local[((k - 1) \div Len(YEARS)) + 1].region, YEARS[((k - 1) % Len(YEARS)) + 1])]

\* The sum of a (region, year) column for an activity.
RegionYearSum(df, regions_local, act, col) ==
    SumVal(SelectSeq(df, LAMBDA r :
              /\ r.act = act
              /\ \E n \in 1..Len(regions_local) :
                    /\ ColName(regions_local[n].region, r.year) = col
                    /\ \E j \in 1..Len(regions_local[n].municipios) :
                          regions_local[n].municipios[j] = r.mun))

\* The rows of the pivot over these activities.
RegionRows(df, regions_local, activities, fill) ==
    [i \in 1..Len(activities) |->
        Row(activities[i],
            [c \in ColSet(RegionCols(regions_local)) |->
                IF fill THEN RegionYearSum(df, regions_local, activities[i], c) ELSE 0])]

\* The records of the municipalities of any region.
InRegions(df, regions_local) ==
    SelectSeq(df, LAMBDA r : /\ r.mun # ""
                             /\ \E n \in 1..Len(regions_local) :
                                   \E j \in 1..Len(regions_local[n].municipios) :
                                       regions_local[n].municipios[j] = r.mun)

process_variable(df, regions_local) ==
    IF InRegions(df, regions_local) = <<>>
    THEN Frame(RegionCols(regions_local), RegionRows(df, regions_local, Unique(df), FALSE))
    ELSE Frame(RegionCols(regions_local),
               RegionRows(df, regions_local,
                          SortedTexts(ActivitiesOf(InRegions(df, regions_local))), TRUE))

\* The regional file of main(): the pivot, cleaned, with its Total row, its
\* columns sorted.
RegionalPivot(df) ==
    Frame(SortedTexts(ColSet(RegionCols(regions))),
          add_total_row_to_df(clean_sectores_column(process_variable(df, regions))).rows)

\* main(): the files written from the records of the input.
process_saic_main(input) ==
    export_nation_state_wide_csvs(SelectSeq(input, LAMBDA r : r.year >= 2008), YEARS)
      @@ [k \in {FileKey("28_Regional", "A111A_Regional")} |->
             RegionalPivot(SelectSeq(input, LAMBDA r : r.year >= 2008))]

(***************************************************************************)
(* The builders of main.py: build_national_wide_csv,                       *)
(* build_tamaulipas_wide_csv and build_tam_municipal_wide_csvs.  The       *)
(* source dataset is a list of records; its metric columns are given by    *)
(* their codes (the first word of their names), and a record holds one     *)
(* value, which it has in every metric column.  The census year of a       *)
(* record is a number, so that the Year text is its decimal form.          *)
(***************************************************************************)
\* sort_key(col): (code, int(year)), or (col, 0) when the name has no '_' or
\* what follows it is no number.
HasYear(col) == Contains(col, "_") /\ IsDigitStr(SplitFirst(col, "_")[2])

KeyCode(col) == IF HasYear(col) THEN SplitFirst(col, "_")[1] ELSE col

KeyYear(col) == IF HasYear(col) THEN IntOf(SplitFirst(col, "_")[2]) ELSE 0

\* sort_key(a) < sort_key(b) on the tuples.
KeyLess(a, b) ==
    \/ StrLess(KeyCode(a), KeyCode(b))
    \/ (KeyCode(a) = KeyCode(b) /\ KeyYear(a) < KeyYear(b))

\* sorted(wide.columns, key=sort_key): the sort is stable and the pivot
\* leaves the columns in the order of their names.
RECURSIVE sorted_by_key(_)
sorted_by_key(S) ==
    IF S = {} THEN <<>>
    ELSE LET m == CHOOSE x \in S : \A y \in S \ {x} :
                      KeyLess(x, y) \/ (~KeyLess(y, x) /\ StrLess(x, y))
         IN  <<m>> \o sorted_by_key(S \ {m})

\* The codes of the metric columns of the dataset, in the order of the file.
PrefixCode == <<"A", "1", "1", "1">>

SourceCodes == <<MetricCode, PrefixCode>>

\* .replace({old: new}) on the activity column.
ReplaceLabel(recs, old, new) ==
    [i \in 1..Len(recs) |-> [recs[i] EXCEPT !.act = IF @ = old THEN new ELSE @]]

\* long.pivot(...) raises ValueError when two rows of long have the same
\* activity and the same column name.
HasDuplicates(recs) ==
    \E i, j \in 1..Len(recs) : i < j /\ recs[i].act = recs[j].act /\ recs[i].year = recs[j].year

\* The column names Code_Year of the records.
PivotCols(recs) ==
    {ColName(SourceCodes[k], recs[i].year) : k \in 1..Len(SourceCodes), i \in 1..Len(recs)}

\* The cell of the pivot: the value of the record of the activity and the
\* year, NaN when there is none.
PivotCell(recs, act, col) ==
    IF \E i \in 1..Len(recs) : recs[i].act = act /\ col \in PivotCols(<<recs[i]>>)
    THEN recs[CHOOSE i \in 1..Len(recs) : recs[i].act = act /\ col \in PivotCols(<<recs[i]>>)].val
    ELSE NACell

\* pivot(index=activity_col, columns='ColName', values='Valor') of records
\* without duplicates, then reindex(columns=ordered_cols): the rows come in
\* the order of their labels, the columns in the order of sort_key.
pivot(recs) ==
    Frame(sorted_by_key(PivotCols(recs)),
          [i \in 1..Cardinality(ActivitiesOf(recs)) |->
              Row(SortedTexts(ActivitiesOf(recs))[i],
                  [c \in PivotCols(recs) |->
                      PivotCell(recs, SortedTexts(ActivitiesOf(recs))[i], c)])])

move_total_keep(df, total_label) == df

\* pd.concat([wide[~is_total], wide[is_total]]) when the label is there.
move_total_last(df, total_label) ==
    Frame(df.cols, SelectSeq(df.rows, LAMBDA r : r.label # total_label)
                     \o SelectSeq(df.rows, LAMBDA r : r.label = total_label))

\* What a builder returns: it raised, or the files it wrote.
Raised(files) == [status |-> "raised", files |-> files]

Written(files) == [status |-> "written", files |-> files]

OneFile(name, df) == [k \in {name} |-> df]

LabelTotalNacionalUpper == TotalPrefix \o <<"N", "a", "c", "i", "o", "n", "a", "l">>

LabelTotalTamaulipas == TotalPrefix \o <<"T", "a", "m", "a", "u", "l", "i", "p", "a", "s">>

\* build_national_wide_csv()
build_national_wide_csv(df) ==
    IF HasDuplicates(ReplaceLabel(SelectSeq(df, LAMBDA r : r.ent = "00 Total Nacional"),
                                  TotalPrefix \o <<"n", "a", "c", "i", "o", "n", "a", "l">>,
                                  LabelTotalNacionalUpper))
    THEN Raised(NoFiles)
    ELSE Written(OneFile("00_Total_Nacional",
            append_checksum_row(
                move_total_last(
                    pivot(ReplaceLabel(SelectSeq(df, LAMBDA r : r.ent = "00 Total Nacional"),
                                       TotalPrefix \o <<"n", "a", "c", "i", "o", "n", "a", "l">>,
                                       LabelTotalNacionalUpper)),
                    LabelTotalNacionalUpper))))

\* build_tamaulipas_wide_csv(): a replaced label is never 'Total estatal', so
\* the loop over the two total labels moves 'Total Tamaulipas' or nothing.
build_tamaulipas_wide_csv(df) ==
    IF HasDuplicates(ReplaceLabel(SelectSeq(df, LAMBDA r : r.ent = "28 Tamaulipas" /\ r.mun = ""),
                                  TotalPrefix \o <<"e", "s", "t", "a", "t", "a", "l">>,
                                  LabelTotalTamaulipas))
    THEN Raised(NoFiles)
    ELSE Written(OneFile("28_Tamaulipas",
            append_checksum_row(
                move_total_last(
                    pivot(ReplaceLabel(SelectSeq(df, LAMBDA r : r.ent = "28 Tamaulipas" /\ r.mun = ""),
                                       TotalPrefix \o <<"e", "s", "t", "a", "t", "a", "l">>,
                                       LabelTotalTamaulipas)),
                    LabelTotalTamaulipas))))

TextNA == <<"N", "/", "A">>

LabelTotalMunicipal == TotalPrefix \o <<"m", "u", "n", "i", "c", "i", "p", "a", "l">>

\* The names of the municipalities of the records, as texts.
MunText(mun) ==
    CASE mun = "002 Aldama"   -> <<"0", "0", "2", " ", "A", "l", "d", "a", "m", "a">>
      [] mun = "003 Altamira" -> <<"0", "0", "3", " ", "A", "l", "t", "a", "m", "i", "r", "a">>
      [] OTHER                -> <<>>

\* sorted(df_mun['Municipio'].dropna().unique())
Municipios(df_mun) ==
    LET names == {df_mun[i].mun : i \in 1..Len(df_mun)}
        texts == SortedTexts({MunText(m) : m \in names})
    IN  [i \in 1..Len(texts) |-> CHOOSE m \in names : MunText(m) = texts[i]]

\* years = [2003, 2008, 2013, 2018, 2023]
MarkYears == <<2003, 2008, 2013, 2018, 2023>>

\* str(c).endswith(f'_{y}')
IsYearCol(col, y) ==
    /\ Len(col) >= Len(NatText(y)) + 1
    /\ SubSeq(col, Len(col) - Len(NatText(y)), Len(col)) = <<"_">> \o NatText(y)

MarkCell_always_c(df_one, act, col, val) ==
    IF ~IsSector(act) \/ ~IsNA(val) \/ ~\E k \in 1..Len(MarkYears) : IsYearCol(col, MarkYears[k])
    THEN val
    ELSE StrCell(<<"C">>)

\* The C / N/A marking of one cell: a missing cell of a sector row, in a
\* column of one of the years, is 'C' when the activity has a record of that
\* year and 'N/A' when it has none.
MarkCell(df_one, act, col, val) ==
    IF ~IsSector(act) \/ ~IsNA(val) \/ ~\E k \in 1..Len(MarkYears) : IsYearCol(col, MarkYears[k])
    THEN val
    ELSE IF \E k \in 1..Len(MarkYears) : \E i \in 1..Len(df_one) :
                /\ IsYearCol(col, MarkYears[k])
                /\ df_one[i].year = MarkYears[k]
                /\ df_one[i].act = act
         THEN StrCell(<<"C">>)
         ELSE StrCell(TextNA)

\* Lines 351-373: the marking, then 'Total municipal' renamed.
MarkAndRename(df_one, wide_df, total_label) ==
    Frame(wide_df.cols,
          [i \in 1..Len(wide_df.rows) |->
              Row(IF wide_df.rows[i].label = LabelTotalMunicipal THEN total_label
                                                                 ELSE wide_df.rows[i].label,
                  [c \in ColSet(wide_df.cols) |->
                      MarkCell(df_one, wide_df.rows[i].label, c, wide_df.rows[i].cells[c])])])

\* The file of one municipality.
MunicipalWide(df_one, mun) ==
    append_checksum_row(
        move_total_last(MarkAndRename(df_one, pivot(df_one), TotalPrefix \o MunText(mun)),
                        TotalPrefix \o MunText(mun)))

\* The loop over the municipalities from the n-th on: the files written, and
\* whether a pivot raised.
RECURSIVE MunicipalLoop(_, _, _, _)
MunicipalLoop(df_mun, municipios, n, outputs) ==
    IF n > Len(municipios) THEN Written(outputs)
    ELSE IF HasDuplicates(SelectSeq(df_mun, LAMBDA r : r.mun = municipios[n]))
    THEN Raised(outputs)
    ELSE MunicipalLoop(df_mun, municipios, n + 1,
                       outputs @@ OneFile(municipios[n],
                                          MunicipalWide(SelectSeq(df_mun, LAMBDA r : r.mun = municipios[n]),
                                                        municipios[n])))

\* build_tam_municipal_wide_csvs()
build_tam_municipal_wide_csvs(df) ==
    MunicipalLoop(SelectSeq(df, LAMBDA r : r.ent = "28 Tamaulipas" /\ r.mun # ""),
                  Municipios(SelectSeq(df, LAMBDA r : r.ent = "28 Tamaulipas" /\ r.mun # "")),
                  1, NoFiles)

(***************************************************************************)
(* divide.py and divide2.py.  A table is read from a file whose first      *)
(* column is 'Actividad económica' and whose other columns are numbers.    *)
(* A quotient is a float that may be NaN or infinite.                      *)
(***************************************************************************)
Ratio(v) == [nan |-> FALSE, inf |-> FALSE, v |-> v]

RatioNaN == [nan |-> TRUE, inf |-> FALSE, v |-> 0]

RatioInf == [nan |-> FALSE, inf |-> TRUE, v |-> 0]

\* a / b on floats, as pandas and numpy divide.
FDiv(a, b) ==
    IF a.nan \/ b.nan THEN RatioNaN
    ELSE IF b.v = 0 THEN (IF a.v = 0 THEN RatioNaN ELSE RatioInf)
    ELSE Ratio((a.v * Unit) \div b.v)

\* .replace({0: np.nan}) and np.where(x == 0, np.nan, x), on one value.
ZeroToNaN(f) == IF ~f.nan /\ f.v = 0 THEN NaN ELSE f

\* The table a directory holds under a name, or no file.
NoTable == [exists |-> FALSE, cols |-> <<>>, rows |-> <<>>]

Table(cols, rows) == [exists |-> TRUE, cols |-> cols, rows |-> rows]

\* divide.py, for one variable: the result, or the stage skipped.
divide(df_nac, df_tam) ==
    IF ~df_nac.exists \/ ~df_tam.exists THEN [status |-> "skipped", df |-> Frame(<<>>, <<>>)]
    ELSE [status |-> "written",
          df |-> Frame(df_nac.cols,
                       [i \in 1..Len(df_nac.rows) |->
                           Row(df_nac.rows[i].label,
                               [c \in ColSet(df_nac.cols) |->
                                   IF c \in ColSet(df_tam.cols) /\ i <= Len(df_tam.rows)
                                   THEN FDiv(df_nac.rows[i].cells[c], ZeroToNaN(df_tam.rows[i].cells[c]))
                                   ELSE RatioNaN])])]

\* all(col.startswith("C") and col[1:].isdigit() for col in first_row)
PlaceholderHeader(names) ==
    \A i \in 1..Len(names) : Len(names[i]) > 0 /\ names[i][1] = "C" /\ IsDigitStr(Tail(names[i]))

ActivityCol ==
    <<"A", "c", "t", "i", "v", "i", "d", "a", "d", " ", "e", "c", "o", "n", "ó", "m", "i", "c", "a">>

\* read_with_header_fix: the first line of these files begins with
\* 'Actividad económica', so it is the header.
read_with_header_fix(file) ==
    IF PlaceholderHeader(<<ActivityCol>> \o file.cols)
    THEN Table([j \in 1..Len(file.cols) |-> fmt3(file.rows[1].cells[file.cols[j]])], Tail(file.rows))
    ELSE file

\* The values of a table as an array: its shape and its entries.
values(t) ==
    [nrows |-> Len(t.rows), ncols |-> Len(t.cols),
     at |-> [i \in 1..Len(t.rows) |-> [j \in 1..Len(t.cols) |-> t.rows[i].cells[t.cols[j]]]]]

\* numpy broadcasting of one axis: equal lengths, or one of them 1.
Broadcastable(m, n) == m = n \/ m = 1 \/ n = 1

BroadcastLen(m, n) == IF m = 1 THEN n ELSE m

\* The index of an axis of length m for the index k of the broadcast axis.
BroadcastIdx(m, k) == IF m = 1 THEN 1 ELSE k

\* a / np.where(b == 0, np.nan, b) on arrays: ValueError when the shapes do
\* not broadcast.
ArrayDivide(a, b) ==
    IF ~Broadcastable(a.nrows, b.nrows) \/ ~Broadcastable(a.ncols, b.ncols)
    THEN [raised |-> TRUE, nrows |-> 0, ncols |-> 0, at |-> <<>>]
    ELSE [raised |-> FALSE,
          nrows  |-> BroadcastLen(a.nrows, b.nrows),
          ncols  |-> BroadcastLen(a.ncols, b.ncols),
          at     |-> [i \in 1..BroadcastLen(a.nrows, b.nrows) |->
                        [j \in 1..BroadcastLen(a.ncols, b.ncols) |->
                            FDiv(a.at[BroadcastIdx(a.nrows, i)][BroadcastIdx(a.ncols, j)],
                                 ZeroToNaN(b.at[BroadcastIdx(b.nrows, i)][BroadcastIdx(b.ncols, j)]))]]]

\* The label of a row that the concat along the columns leaves without one.
NoLabel == <<>>

\* pd.concat([labels, pd.DataFrame(df_div, columns=tam_data.columns)], axis=1):
\* ValueError when the array has not as many columns as there are names.
DivideResult(df_tam, df_div) ==
    IF df_div.raised \/ df_div.ncols # Len(df_tam.cols)
    THEN [status |-> "raised", df |-> Frame(<<>>, <<>>)]
    ELSE [status |-> "written",
          df |-> Frame(df_tam.cols,
                       [i \in 1..(IF df_div.nrows > Len(df_tam.rows) THEN df_div.nrows
                                                                      ELSE Len(df_tam.rows)) |->
                           Row(IF i <= Len(df_tam.rows) THEN df_tam.rows[i].label ELSE NoLabel,
                               [c \in ColSet(df_tam.cols) |->
                                   IF i <= df_div.nrows
                                   THEN df_div.at[i][CHOOSE j \in 1..Len(df_tam.cols) : df_tam.cols[j] = c]
                                   ELSE RatioNaN])])]

DivideTables(df_tam, df_region) == DivideResult(df_tam, ArrayDivide(values(df_tam), values(df_region)))

\* divide2.py, for one region and one variable.
divide2(tam_file, region_file) ==
    IF ~tam_file.exists \/ ~region_file.exists THEN [status |-> "skipped", df |-> Frame(<<>>, <<>>)]
    ELSE DivideTables(read_with_header_fix(tam_file), read_with_header_fix(region_file))

(***************************************************************************)
(* deprecated/rework/legacy_main.py, the ratio stages of the older         *)
(* pipeline.                                                               *)
(***************************************************************************)
\* regions_map of legacy_main.py
legacy_regions_map ==
    << [region |-> <<"F", "r", "o", "n", "t", "e", "r", "a">>,
        municipios |-> <<"027 Nuevo Laredo">>],
       [region |-> <<"R", "i", "b", "e", "r", "e", "ñ", "a">>,
        municipios |-> <<"007 Camargo", "014 Guerrero", "015 Gustavo Díaz Ordaz", "024 Mier",
                         "025 Miguel Alemán">>],
       [region |-> <<"R", "e", "y", "n", "o", "s", "a">>,
        municipios |-> <<"005 Burgos", "032 Reynosa", "033 Río Bravo", "023 Méndez">>],
       [region |-> <<"M", "a", "t", "a", "m", "o", "r", "o", "s">>,
        municipios |-> <<"010 Cruillas", "035 San Fernando", "022 Matamoros", "040 Valle Hermoso">>],
       [region |-> <<"C", "e", "n", "t", "r", "o">>,
        municipios |-> <<"001 Abasolo", "008 Casas", "013 Güémez", "016 Hidalgo", "018 Jiménez",
                         "019 Llera", "020 Mainero", "030 Padilla", "034 San Carlos",
                         "036 San Nicolás", "037 Soto la Marina", "041 Victoria", "042 Villagrán">>],
       [region |-> <<"M", "a", "n", "t", "e">>,
        municipios |-> <<"004 Antiguo Morelos", "006 Bustamante", "017 Jaumave", "026 Miquihuana",
                         "031 Palmillas", "039 Tula", "021 El Mante", "011 Gómez Farías",
                         "012 González", "028 Nuevo Morelos", "029 Ocampo", "043 Xicoténcatl">>],
       [region |-> <<"S", "u", "r">>,
        municipios |-> <<"002 Aldama", "003 Altamira", "009 Ciudad Madero", "038 Tampico">>] >>

\* step3_divide_national_state, for one variable: the state's table over the
\* national table, on the rows and columns of the national table.
step3_divide_national_state(df_nac, df_tam) ==
    IF ~df_nac.exists \/ ~df_tam.exists THEN [status |-> "skipped", df |-> Frame(<<>>, <<>>)]
    ELSE [status |-> "written",
          df |-> Frame(df_nac.cols,
                       [i \in 1..Len(df_nac.rows) |->
                           Row(df_nac.rows[i].label,
                               [c \in ColSet(df_nac.cols) |->
                                   IF c \in ColSet(df_tam.cols) /\ i <= Len(df_tam.rows)
                                   THEN FDiv(ZeroToNaN(df_tam.rows[i].cells[c]), df_nac.rows[i].cells[c])
                                   ELSE RatioNaN])])]

\* a / b on the floats of a ratio table, which may be NaN or infinite (the
\* values here are never negative).
RDiv(a, b) ==
    IF a.nan \/ b.nan THEN RatioNaN
    ELSE IF a.inf THEN (IF b.inf THEN RatioNaN ELSE RatioInf)
    ELSE IF b.inf THEN Ratio(0)
    ELSE IF b.v = 0 THEN (IF a.v = 0 THEN RatioNaN ELSE RatioInf)
    ELSE Ratio((a.v * Unit) \div b.v)

RatioZeroToNaN_keep(r) == r

\* np.where(reg_data.values == 0, np.nan, reg_data.values), on one value.
RatioZeroToNaN(r) == IF ~r.nan /\ ~r.inf /\ r.v = 0 THEN RatioNaN ELSE r

\* nat_data.values / np.where(reg_data.values == 0, np.nan, reg_data.values):
\* ValueError when the shapes do not broadcast.
RatioArrayDivide(a, b) ==
    IF ~Broadcastable(a.nrows, b.nrows) \/ ~Broadcastable(a.ncols, b.ncols)
    THEN [raised |-> TRUE, nrows |-> 0, ncols |-> 0, at |-> <<>>]
    ELSE [raised |-> FALSE,
          nrows  |-> BroadcastLen(a.nrows, b.nrows),
          ncols  |-> BroadcastLen(a.ncols, b.ncols),
          at     |-> [i \in 1..BroadcastLen(a.nrows, b.nrows) |->
                        [j \in 1..BroadcastLen(a.ncols, b.ncols) |->
                            RDiv(a.at[BroadcastIdx(a.nrows, i)][BroadcastIdx(a.ncols, j)],
                                 RatioZeroToNaN(b.at[BroadcastIdx(b.nrows, i)][BroadcastIdx(b.ncols, j)]))]]]

\* step6_divide_nation_state_state_region, for one region and one variable
\* (the script divide_nation_state_state_region.py is the same code).
step6_divide_nation_state_state_region(nat_file, reg_file) ==
    IF ~nat_file.exists \/ ~reg_file.exists THEN [status |-> "skipped", df |-> Frame(<<>>, <<>>)]
    ELSE DivideResult(read_with_header_fix(nat_file),
                      RatioArrayDivide(values(read_with_header_fix(nat_file)),
                                       values(read_with_header_fix(reg_file))))

(***************************************************************************)
(* deprecated/legacy/process_percentages.py (step7_process_percentages of  *)
(* legacy_main.py is the same code).  The tables it reads hold numbers     *)
(* that are not negative, or nothing.                                      *)
(***************************************************************************)
\* round(n / d) to the nearest integer, a tie to the even one (n >= 0, d > 0).
RoundHalfEven(n, d) ==
    IF 2 * (n % d) < d THEN n \div d
    ELSE IF 2 * (n % d) > d THEN (n \div d) + 1
    ELSE IF (n \div d) % 2 = 0 THEN n \div d
    ELSE (n \div d) + 1

percentage_floor(x, total) ==
    IF x.nan \/ total.nan THEN RatioNaN
    ELSE IF total.v = 0 THEN (IF x.v = 0 THEN RatioNaN ELSE RatioInf)
    ELSE Ratio(((x.v * 100 * 100) \div total.v) * (Unit \div 100))

\* (x / total * 100).round(2) on floats.
percentage(x, total) ==
    IF x.nan \/ total.nan THEN RatioNaN
    ELSE IF total.v = 0 THEN (IF x.v = 0 THEN RatioNaN ELSE RatioInf)
    ELSE Ratio(RoundHalfEven(x.v * 100 * 100, total.v) * (Unit \div 100))

\* Lines 18-23: the rows but the last, each cell over the cell of the last
\* row in its column; the last row as it was read.
percentages(df) ==
    [i \in 1..Len(df.rows) |->
        Row(df.rows[i].label,
            [c \in ColSet(df.cols) |->
                IF i < Len(df.rows)
                THEN percentage(df.rows[i].cells[c], df.rows[Len(df.rows)].cells[c])
                ELSE IF df.rows[i].cells[c].nan THEN RatioNaN ELSE Ratio(df.rows[i].cells[c].v)])]

force_last_row_skip(rows) == rows

\* df.iloc[-1, 1:] = 100.0
force_last_row(rows) ==
    [i \in 1..Len(rows) |->
        IF i < Len(rows) THEN rows[i]
        ELSE Row(rows[i].label, [c \in DOMAIN rows[i].cells |-> Ratio(100 * Unit)])]

\* process_csv_last_row(file): df.iloc[-1] raises IndexError on a table
\* without rows.
process_csv_last_row(file) ==
    IF file.rows = <<>> THEN [status |-> "raised", df |-> Frame(<<>>, <<>>)]
    ELSE [status |-> "written", df |-> Frame(file.cols, force_last_row(percentages(file)))]

(***************************************************************************)
(* run_all.py and the scripts it runs, on the files under output/csv.  A   *)
(* file is known by its folder, its subfolder, the variable code and the   *)
(* rest of its name; what it holds is known by the regions its columns     *)
(* carry and by the data the numbers come from.                            *)
(***************************************************************************)
scripts_swapped ==
    <<"clear.py", "divide.py", "process_saic.py", "regional.py", "divide2.py", "final.py">>

scripts ==
    <<"clear.py", "process_saic.py", "divide.py", "regional.py", "divide2.py", "final.py">>

\* VARIABLES of divide.py and divide2.py
DivideVariables == <<"A111A", "A121A", "A211A", "A221A">>

\* REGIONS of regional.py
REGIONS == <<"Frontera", "Ribereña", "Reynosa", "Matamoros", "Centro", "Mante", "Sur">>

\* REGIONAL_DIRS of divide2.py, in the order of the dict
REGIONAL_DIRS == <<"Centro", "Frontera", "Mante", "Matamoros", "Reynosa", "Ribereña", "Sur">>

File(dir, sub, var, tag) == [dir |-> dir, sub |-> sub, var |-> var, tag |-> tag]

Content(regs, data) == [regions |-> regs, data |-> data]

Fs(files, dirs, others) == [files |-> files, dirs |-> dirs, others |-> others]

path_exists(fs, path) == path \in DOMAIN fs.files

\* df.to_csv(path) for every path of a set
to_csv(fs, paths, content) ==
    Fs([p \in DOMAIN fs.files \cup paths |-> IF p \in paths THEN content[p] ELSE fs.files[p]],
       fs.dirs, fs.others)

\* os.makedirs(path, exist_ok=True)
makedirs(fs, dir, sub) == Fs(fs.files, fs.dirs \cup {<<dir, "">>, <<dir, sub>>}, fs.others)

\* How a script ends: the files it leaves, its exit code and what it printed.
Exit(fs, code, out) == [fs |-> fs, exit |-> code, out |-> out]

clear_nothing(fs) == Exit(fs, 0, <<>>)

\* clear.py: every file, link and folder of output/csv is removed; an entry
\* that is none of them is left.
clear(fs) == Exit(Fs(<<>>, {}, fs.others), 0, <<>>)

\* export_nation_state_wide_csvs, for one entity that has records.
export_entity(fs, input, label, suffix, data) ==
    IF input.missing = "Actividad económica" \/ input.codes = {}
    THEN [fs |-> fs, raised |-> TRUE]
    ELSE LET top   == File("", "", "", label)
             moved == File(label, "", "", label)
             fs1   == makedirs(to_csv(fs, {top}, [p \in {top} |-> Content({}, data)]), label, "")
         IN  IF path_exists(fs1, moved)
             THEN [fs |-> fs1, raised |-> TRUE]
             ELSE [fs |-> to_csv(Fs([p \in DOMAIN fs1.files \ {top} |-> fs1.files[p]],
                                    fs1.dirs, fs1.others),
                                 {moved} \cup {File(label, "", c, suffix) : c \in input.codes},
                                 [p \in {moved} \cup {File(label, "", c, suffix) : c \in input.codes}
                                     |-> Content({}, data)]),
                   raised |-> FALSE]

\* process_saic.py run as a script, by the files it writes.
process_saic_py(fs, input) ==
    IF input.missing \in {"Municipio", "Año Censal", "Entidad"} THEN Exit(fs, 1, <<>>)
    ELSE LET nat == IF input.nat
                    THEN export_entity(fs, input, "00_Total_Nacional", "Nacional", <<1>>)
                    ELSE [fs |-> fs, raised |-> FALSE]
             sta == IF input.sta
                    THEN export_entity(nat.fs, input, "28_Tamaulipas", "Tamaulipas", <<2>>)
                    ELSE [fs |-> nat.fs, raised |-> FALSE]
             reg == {File("28_Regional", "", c, "Regional") : c \in input.codes}
         IN  IF nat.raised THEN Exit(nat.fs, 1, <<>>)
             ELSE IF sta.raised THEN Exit(sta.fs, 1, <<>>)
             ELSE IF input.codes # {} /\ input.missing = "Actividad económica"
                  THEN Exit(makedirs(sta.fs, "28_Regional", ""), 1, <<>>)
             ELSE Exit(to_csv(makedirs(sta.fs, "28_Regional", ""), reg,
                              [p \in reg |-> Content({REGIONS[i] : i \in 1..Len(REGIONS)}, <<3>>)]),
                       0, <<>>)

\* The lines printed for the combinations that are skipped.
Warnings(script, skipped) ==
    [i \in 1..Len(skipped) |-> Line("warning", <<script, skipped[i][1], skipped[i][2]>>)]

\* divide.py, by the files it writes.
divide_py(fs) ==
    LET nac(v)  == File("00_Total_Nacional", "", v, "Nacional")
        tam(v)  == File("28_Tamaulipas", "", v, "Tamaulipas")
        has(v)  == path_exists(fs, nac(v)) /\ path_exists(fs, tam(v))
        done    == {DivideVariables[i] : i \in {k \in 1..Len(DivideVariables) : has(DivideVariables[k])}}
        outs    == {File("proportional_national_state", "", v, "proportional") : v \in done}
        skipped == SelectSeq([i \in 1..Len(DivideVariables) |-> <<DivideVariables[i], "">>],
                             LAMBDA c : ~has(c[1]))
    IN  Exit(to_csv(makedirs(fs, "proportional_national_state", ""), outs,
                    [p \in outs |-> Content({}, fs.files[nac(p.var)].data \o fs.files[tam(p.var)].data)]),
             0, Warnings("divide.py", skipped))

\* regional.py, by the files it writes: os.listdir raises when the folder
\* is not there.
regional_py(fs) ==
    IF <<"28_Regional", "">> \notin fs.dirs THEN Exit(fs, 1, <<>>)
    ELSE LET regional_files == {p \in DOMAIN fs.files :
                                   p.dir = "28_Regional" /\ p.sub = "" /\ p.tag = "Regional"}
             outs == {File("28_Regional", r, p.var, r) : p \in regional_files, r \in {REGIONS[i] : i \in 1..Len(REGIONS)}}
             made == {o \in outs : o.sub \in fs.files[File("28_Regional", "", o.var, "Regional")].regions}
         IN  Exit(to_csv(Fs(fs.files, fs.dirs \cup {<<"28_Regional", o.sub>> : o \in made}, fs.others),
                         made,
                         [o \in made |-> Content({o.sub}, fs.files[File("28_Regional", "", o.var, "Regional")].data)]),
                  0, <<>>)

\* The (region, variable) pairs of a loop over regions and variables.
Combinations(regs) ==
    [k \in 1..(Len(regs) * Len(DivideVariables)) |->
        <<DivideVariables[((k - 1) % Len(DivideVariables)) + 1],
          regs[((k - 1) \div Len(DivideVariables)) + 1]>>]

\* divide2.py, by the files it writes.
divide2_py(fs) ==
    LET tam(c)  == File("28_Tamaulipas", "", c[1], "Tamaulipas")
        reg(c)  == File("28_Regional", c[2], c[1], c[2])
        has(c)  == path_exists(fs, tam(c)) /\ path_exists(fs, reg(c))
        all     == Combinations(REGIONAL_DIRS)
        done    == {all[k] : k \in {j \in 1..Len(all) : has(all[j])}}
        outs    == {File("prop_state_regions", c[2], c[1], "proportional") : c \in done}
        fs1     == Fs(fs.files,
                      fs.dirs \cup {<<"prop_state_regions", "">>}
                              \cup {<<"prop_state_regions", REGIONAL_DIRS[i]>> : i \in 1..Len(REGIONAL_DIRS)},
                      fs.others)
    IN  Exit(to_csv(fs1, outs,
                    [p \in outs |-> Content({}, fs.files[tam(<<p.var, p.sub>>)].data
                                                  \o fs.files[reg(<<p.var, p.sub>>)].data)]),
             0, Warnings("divide2.py", SelectSeq(all, LAMBDA c : ~has(c))))

\* final.py is not among the sources: the stage composes, for every region
\* and variable, the national/state ratio table and the state/region ratio
\* table where both are there, and skips the pair where one is not.
final_py(fs) ==
    LET nat(c)  == File("proportional_national_state", "", c[1], "proportional")
        reg(c)  == File("prop_state_regions", c[2], c[1], "proportional")
        has(c)  == path_exists(fs, nat(c)) /\ path_exists(fs, reg(c))
        all     == Combinations(REGIONAL_DIRS)
        done    == {all[k] : k \in {j \in 1..Len(all) : has(all[j])}}
        outs    == {File("proportional_region_weight", c[2], c[1], "weight") : c \in done}
        fs1     == Fs(fs.files,
                      fs.dirs \cup {<<"proportional_region_weight", "">>}
                              \cup {<<"proportional_region_weight", REGIONAL_DIRS[i]>> : i \in 1..Len(REGIONAL_DIRS)},
                      fs.others)
    IN  Exit(to_csv(fs1, outs,
                    [p \in outs |-> Content({}, fs.files[nat(<<p.var, p.sub>>)].data
                                                  \o fs.files[reg(<<p.var, p.sub>>)].data)]),
             0, Warnings("final.py", SelectSeq(all, LAMBDA c : ~has(c))))

(***************************************************************************)
(* State.                                                                  *)
(***************************************************************************)
VARIABLES
    cell,       \* codec: the cell under the parser
    parsed,     \* codec: parse_val(cell), as last computed
    rendered,   \* codec: the value that was rendered into cell, or NoValue
    wide,       \* builder: the wide frame a builder of main.py holds
    stage,      \* builder: "build" while rows come in, "done" after the checksum row
    mun_files,  \* regional: the municipal files of output/ready_csv/28_Tam_Mun
    df_saic,    \* regional: the source dataset SAIC_clean.csv
    reg_files,  \* regional: the regional files written, in order
    reg_stage,  \* regional: "load", then "done" or "raised"
    reg_stdout, \* regional: the lines main() printed about the regional files
    saic_input, \* process_saic: the records of input/SAIC_Exporta_Clean.csv
    saic_files, \* process_saic: the files written under output/csv
    saic_stage, \* process_saic: "input", then "done"
    numer_file, \* divide: the file of the table that is divided
    denom_file, \* divide: the file of the table it is divided by
    ratio_out,  \* divide: the outcome of the stage and the table written
    nat_state_out,  \* legacy: the outcome of step 3, state over national
    nat_ratio_file, \* legacy: a file of proportional_national_state
    reg_ratio_file, \* legacy: a file of proportional_state_regions
    weight_out,     \* legacy: the outcome of step 6, the region weights
    pct_file,       \* legacy: a table that step 7 turns into percentages
    pct_out,        \* legacy: the outcome of step 7 and the table written
    src_recs,       \* main.py: the records of input/dataset/SAIC_clean.csv
    built,          \* main.py: the builder that ran, its outcome and its files
    run_input,      \* run_all: what input/SAIC_Exporta_Clean.csv holds
    run_fs,         \* run_all: the files and folders under output/csv
    run_i,          \* run_all: the position of the loop in scripts
    run_child,      \* run_all: the script os.system is running, "" when none
    run_stdout,     \* run_all: the lines printed by run_all.py and its scripts
    run_count,      \* run_all: how many times run_all.py has run to its end
    run_first       \* run_all: output/csv as the first run left it

codecVars == <<cell, parsed, rendered>>

builderVars == <<wide, stage>>

regionalVars == <<mun_files, df_saic, reg_files, reg_stage, reg_stdout>>

saicVars == <<saic_input, saic_files, saic_stage>>

divideVars == <<numer_file, denom_file, ratio_out>>

legacyVars == <<nat_state_out, nat_ratio_file, reg_ratio_file, weight_out, pct_file, pct_out>>

sourceVars == <<src_recs, built>>

runVars == <<run_input, run_fs, run_i, run_child, run_stdout, run_count, run_first>>

vars == <<cell, parsed, rendered, wide, stage, mun_files, df_saic, reg_files, reg_stage, reg_stdout,
          saic_input, saic_files, saic_stage, numer_file, denom_file, ratio_out,
          nat_state_out, nat_ratio_file, reg_ratio_file, weight_out, pct_file, pct_out,
          src_recs, built, run_input, run_fs, run_i, run_child, run_stdout, run_count,
          run_first>>

(***************************************************************************)
(* The codec of _append_checksum_row: a fresh cell is typed character by   *)
(* character, or set to a number, or left missing, or rendered from sums;  *)
(* parse_val reads it each time.                                           *)
(***************************************************************************)
NoValue == [tag |-> "none", base |-> 0, count |-> 0]

\* The bases tried: every multiple of 0.001 up to MaxBase thousandths, and
\* the whole numbers up to MaxWhole, either sign.
Bases ==
    ((0 - MaxBase)..MaxBase) \cup {w * Unit : w \in (0 - MaxWhole)..MaxWhole}

\* The annotated values: Absent, Numeric(base), Censored(base, count >= 1).
AnnotatedValues ==
    {[tag |-> "Absent", base |-> 0, count |-> 0]}
      \cup {[tag |-> "Numeric", base |-> b, count |-> 0] : b \in Bases}
      \cup {[tag |-> "Censored", base |-> b, count |-> c] : b \in Bases, c \in 1..MaxCount}

\* The sums _append_checksum_row holds for an annotated value.
SumsOf(v) == [base |-> Fl(v.base), k |-> v.count, had |-> v.tag # "Absent"]

\* A text whose last number already has Decimals fractional digits.
FracFull(s) ==
    /\ Len(s) > Decimals
    /\ s[Len(s) - Decimals] = "."
    /\ \A i \in (Len(s) - Decimals + 1)..Len(s) : s[i] \in Digits

InitCodec ==
    /\ cell = StrCell(<<>>)
    /\ parsed = parse_val(StrCell(<<>>))
    /\ rendered = NoValue

Fresh == cell = StrCell(<<>>) /\ rendered = NoValue

TypeChar ==
    /\ cell.kind = "str"
    /\ rendered = NoValue
    /\ Len(cell.s) < MaxTextLen
    /\ \E c \in Chars :
          /\ ~(c \in Digits /\ FracFull(cell.s))
          /\ cell' = StrCell(Append(cell.s, c))
          /\ parsed' = parse_val(StrCell(Append(cell.s, c)))
    /\ rendered' = NoValue
    /\ UNCHANGED <<builderVars, regionalVars, saicVars, divideVars, legacyVars, sourceVars, runVars>>

PutNumber ==
    /\ Fresh
    /\ \E b \in Bases :
          /\ cell' = NumCell(b)
          /\ parsed' = parse_val(NumCell(b))
    /\ rendered' = NoValue
    /\ UNCHANGED <<builderVars, regionalVars, saicVars, divideVars, legacyVars, sourceVars, runVars>>

ClearCell ==
    /\ Fresh
    /\ cell' = NACell
    /\ parsed' = parse_val(NACell)
    /\ rendered' = NoValue
    /\ UNCHANGED <<builderVars, regionalVars, saicVars, divideVars, legacyVars, sourceVars, runVars>>

Render ==
    /\ Fresh
    /\ \E v \in AnnotatedValues :
          /\ cell' = checksum_cell(SumsOf(v))
          /\ parsed' = parse_val(checksum_cell(SumsOf(v)))
          /\ rendered' = v
    /\ UNCHANGED <<builderVars, regionalVars, saicVars, divideVars, legacyVars, sourceVars, runVars>>

(***************************************************************************)
(* A builder of main.py (national, state, municipal): the pivot leaves a   *)
(* wide frame with one row per activity, and _append_checksum_row closes   *)
(* it.                                                                     *)
(***************************************************************************)
ColA == <<"A", "1", "1", "1", "A", "_", "2", "0", "1", "8">>

ColB == <<"A", "1", "1", "1", "A", "_", "2", "0", "2", "3">>

WideCols == <<ColA, ColB>>

LabelSectorA == SectorPrefix \o <<"A">>

LabelSectorB == SectorPrefix \o <<"B">>

\* A label that begins like a sector's but for the blank.
LabelSectores == <<"S", "e", "c", "t", "o", "r", "e", "s">>

LabelTotal == <<"T", "o", "t", "a", "l">>

Text5C == <<"5", " ", "+", " ", "C">>

\* What a cell of a sector row may hold after the pivot and the C / N/A
\* marking; the second column takes fewer values than the first.
SectorCells(c) ==
    IF c = ColA
    THEN { NACell, NumCell(10000), StrCell(Text5C), StrCell(TextNA),
           StrCell(<<" ">>), StrCell(<<"n", "a", "n">>) }
    ELSE { NACell, StrCell(Text5C) }

\* The functions that give each column one of its values.
CellChoices(choices) ==
    {f \in [DOMAIN choices -> UNION {choices[c] : c \in DOMAIN choices}] :
        \A c \in DOMAIN choices : f[c] \in choices[c]}

\* The cells of the rows that are no sector rows: a total, a label that is
\* no sector's, and the checksum row of a frame that was closed before.
OtherCells == [c \in ColSet(WideCols) |-> IF c = ColA THEN NumCell(30000) ELSE StrCell(<<"3", "0", " ", "+", " ", "2", "C">>)]

InputRows ==
    {Row(l, cs) : l \in {LabelSectorA, LabelSectorB}, cs \in CellChoices([c \in ColSet(WideCols) |-> SectorCells(c)])}
      \cup {Row(l, OtherCells) : l \in {LabelTotal, LabelSectores, ChecksumLabel}}

Labels(df) == {df.rows[i].label : i \in 1..Len(df.rows)}

\* The regional builder has not been given anything yet.
RegionalIdle ==
    /\ reg_stage = "load"
    /\ df_saic = [readable |-> FALSE, recs |-> <<>>]
    /\ DOMAIN mun_files = {}

InitBuilder ==
    /\ wide = Frame(WideCols, <<>>)
    /\ stage = "build"

\* The pivot yields one more activity row (its index is unique).
AddRow ==
    /\ stage = "build"
    /\ RegionalIdle
    /\ \E r \in InputRows :
          /\ r.label \notin Labels(wide)
          /\ wide' = Frame(wide.cols, Append(wide.rows, r))
    /\ UNCHANGED <<stage, codecVars, regionalVars, saicVars, divideVars, legacyVars, sourceVars, runVars>>

\* wide = _append_checksum_row(wide)
AppendChecksumRow ==
    /\ stage = "build"
    /\ RegionalIdle
    /\ wide' = append_checksum_row(wide)
    /\ stage' = "done"
    /\ UNCHANGED <<codecVars, regionalVars, saicVars, divideVars, legacyVars, sourceVars, runVars>>

(***************************************************************************)
(* The regional builder reads the municipal files that the municipal       *)
(* builder wrote and the source dataset.  Files exist for two              *)
(* municipalities of the region Sur at most; the other regions have none.  *)
(***************************************************************************)
FileMunis == {"002 Aldama", "003 Altamira"}

\* What a sector cell of a municipal file reads as.
MuniCells(c) ==
    IF c = ColA THEN {NACell, NumCell(7000), StrCell(Text5C)} ELSE {NACell, StrCell(Text5C)}

MuniTotalLabel == TotalPrefix \o <<"m", "u", "n">>

\* The frames of a municipal file: the sectors it holds in the order of the
\* pivot, its total row, and the checksum row the municipal builder appended.
MuniFramesOver(cols) ==
    LET cellsets == CellChoices([c \in ColSet(cols) |-> MuniCells(c)])
        total    == Row(MuniTotalLabel, [c \in ColSet(cols) |-> NumCell(30000)])
        a        == {<<>>} \cup {<<Row(LabelSectorA, cs)>> : cs \in cellsets}
        b        == {<<>>} \cup {<<Row(LabelSectorB, cs)>> : cs \in cellsets}
    IN  {append_checksum_row(Frame(cols, ra \o rb \o <<total>>)) : ra \in a, rb \in b}

MuniFrames == MuniFramesOver(<<ColA>>) \cup MuniFramesOver(<<ColA, ColB>>)

SaicRec(mun, act, year, val) ==
    [ent |-> "28 Tamaulipas", mun |-> mun, act |-> act, year |-> year, val |-> val,
     code |-> MetricCode]

Y2018 == <<"2", "0", "1", "8">>

Y2023 == <<"2", "0", "2", "3">>

\* The datasets tried: none of the region's totals, or some of them.
Datasets ==
    { Dataset(<<SaicRec("002 Aldama", "Sector 11", Y2018, NumCell(4000)),
                SaicRec("027 Nuevo Laredo", "Total municipal", Y2018, NumCell(9000))>>),
      Dataset(<<SaicRec("002 Aldama", "Total municipal", Y2018, NumCell(20000)),
                SaicRec("003 Altamira", "Total municipal", Y2018, NumCell(1500)),
                SaicRec("003 Altamira", "Total municipal", Y2023, NACell)>>) }

\* No frame of the other builders is under way.
BuilderIdle == wide.rows = <<>> /\ stage = "build"

InitRegional ==
    /\ mun_files = NoFiles
    /\ df_saic = NoDataset
    /\ reg_files = <<>>
    /\ reg_stage = "load"
    /\ reg_stdout = <<>>

\* The dataset is put in place before any municipal file is written.
PutDataset ==
    /\ reg_stage = "load"
    /\ BuilderIdle
    /\ df_saic = NoDataset
    /\ DOMAIN mun_files = {}
    /\ \E d \in Datasets : df_saic' = d
    /\ UNCHANGED <<mun_files, reg_files, reg_stage, reg_stdout, codecVars, builderVars, saicVars, divideVars, legacyVars, sourceVars, runVars>>

\* The municipal builder writes the file of a municipality.
WriteMuniFile ==
    /\ reg_stage = "load"
    /\ BuilderIdle
    /\ \E m \in FileMunis :
          /\ ~FileExists(mun_files, m)
          /\ \E df \in MuniFrames :
                mun_files' = [o \in DOMAIN mun_files \cup {m} |-> IF o = m THEN df ELSE mun_files[o]]
    /\ UNCHANGED <<df_saic, reg_files, reg_stage, reg_stdout, codecVars, builderVars, saicVars, divideVars, legacyVars, sourceVars, runVars>>

\* build_tam_regional_wide_csvs()
BuildRegional ==
    /\ reg_stage = "load"
    /\ BuilderIdle
    /\ \E res \in {build_tam_regional_wide_csvs(mun_files, df_saic)} :
          /\ reg_files' = res.outputs
          /\ reg_stage' = IF res.raised THEN "raised" ELSE "done"
          /\ reg_stdout' = main_regional_stdout(res)
    /\ UNCHANGED <<mun_files, df_saic, codecVars, builderVars, saicVars, divideVars, legacyVars, sourceVars, runVars>>

(***************************************************************************)
(* process_saic.py reads its input and writes the national, state and      *)
(* regional tables.                                                        *)
(***************************************************************************)
InputRec(ent, mun, year, act, val) ==
    [ent |-> ent, mun |-> mun, year |-> year, act |-> act, val |-> val]

LabelSector11 == SectorPrefix \o <<"1", "1", " ", "A", "g">>

LabelSector3133 == SectorPrefix \o <<"3", "1", "-", "3", "3", " ", "M", "a">>

LabelTotalNacional == TotalPrefix \o <<"n", "a", "c", "i", "o", "n", "a", "l">>

LabelTotalEstatal == TotalPrefix \o <<"e", "s", "t", "a", "t", "a", "l">>

\* The records tried: sectors and the totals of the source, of the nation,
\* the state and two municipalities, one of a year before 2008, and a second
\* record of a sector of the nation in the same year.
SaicSamples ==
    { InputRec("00 Total Nacional", "", 2018, LabelSector11, 10),
      InputRec("00 Total Nacional", "", 2018, LabelSector11, 7),
      InputRec("00 Total Nacional", "", 2018, LabelSector3133, 20),
      InputRec("00 Total Nacional", "", 2018, LabelTotalNacional, 30),
      InputRec("00 Total Nacional", "", 2003, LabelSector11, 5),
      InputRec("28 Tamaulipas", "", 2023, LabelSector11, 4),
      InputRec("28 Tamaulipas", "", 2023, LabelTotalEstatal, 4),
      InputRec("28 Tamaulipas", "002 Aldama", 2018, LabelSector11, 2),
      InputRec("28 Tamaulipas", "003 Altamira", 2018, LabelSector11, 1),
      InputRec("28 Tamaulipas", "002 Aldama", 2018, LabelTotalMunicipal, 2) }

InitSaic ==
    /\ saic_input = <<>>
    /\ saic_files = NoSaicFiles
    /\ saic_stage = "input"

\* One more record in the input file.
ReadRecord ==
    /\ saic_stage = "input"
    /\ Len(saic_input) < MaxRecords
    /\ \E r \in SaicSamples :
          /\ \A i \in 1..Len(saic_input) : saic_input[i] # r
          /\ saic_input' = Append(saic_input, r)
    /\ UNCHANGED <<saic_files, saic_stage, codecVars, builderVars, regionalVars, divideVars, legacyVars, sourceVars, runVars>>

\* main() of process_saic.py
ProcessSaic ==
    /\ saic_stage = "input"
    /\ saic_files' = process_saic_main(saic_input)
    /\ saic_stage' = "done"
    /\ UNCHANGED <<saic_input, codecVars, builderVars, regionalVars, divideVars, legacyVars, sourceVars, runVars>>

(***************************************************************************)
(* The ratio stages: divide.py divides the national table by the state's,  *)
(* divide2.py the state's by a region's.  The tables share no more than    *)
(* the names of their columns: each has its own rows and columns.          *)
(***************************************************************************)
\* The columns a table may have: one or two of the names, in either order.
TableCols == {<<ColA>>, <<ColB>>, <<ColA, ColB>>, <<ColB, ColA>>}

RowLabel(i) == SectorPrefix \o NatText(i)

\* The tables divided: every cell 6, but the first when it is 0.
NumerTables ==
    {Table(cols, [i \in 1..n |->
                     Row(RowLabel(i),
                         [c \in ColSet(cols) |-> IF z /\ i = 1 /\ c = cols[1] THEN Fl(0) ELSE Fl(6 * Unit)])]) :
        cols \in TableCols, n \in 0..MaxRows, z \in BOOLEAN}

\* The tables divided by: each cell 0 or 3, the activities in the order of
\* the table divided or in the reverse order.
DenomTables ==
    UNION {{Table(cols, [i \in 1..n |-> Row(RowLabel(IF rev THEN n + 1 - i ELSE i), cells[i])]) :
               cells \in [1..n -> [ColSet(cols) -> {Fl(0), Fl(3 * Unit)}]], rev \in BOOLEAN} :
             cols \in TableCols, n \in 0..MaxRows}

NoRatio == [status |-> "none", df |-> Frame(<<>>, <<>>)]

InitDivide ==
    /\ numer_file = NoTable
    /\ denom_file = NoTable
    /\ ratio_out = NoRatio

WriteNumerator ==
    /\ ratio_out = NoRatio
    /\ nat_state_out = NoRatio
    /\ numer_file = NoTable
    /\ \E t \in NumerTables : numer_file' = t
    /\ UNCHANGED <<denom_file, ratio_out, codecVars, builderVars, regionalVars, saicVars, legacyVars, sourceVars, runVars>>

WriteDenominator ==
    /\ ratio_out = NoRatio
    /\ nat_state_out = NoRatio
    /\ denom_file = NoTable
    /\ \E t \in DenomTables : denom_file' = t
    /\ UNCHANGED <<numer_file, ratio_out, codecVars, builderVars, regionalVars, saicVars, legacyVars, sourceVars, runVars>>

\* divide.py: national over state.
Divide ==
    /\ ratio_out = NoRatio
    /\ ratio_out' = divide(numer_file, denom_file)
    /\ UNCHANGED <<numer_file, denom_file, codecVars, builderVars, regionalVars, saicVars, legacyVars, sourceVars, runVars>>

\* divide2.py: state over region.
Divide2 ==
    /\ ratio_out = NoRatio
    /\ ratio_out' = divide2(numer_file, denom_file)
    /\ UNCHANGED <<numer_file, denom_file, codecVars, builderVars, regionalVars, saicVars, legacyVars, sourceVars, runVars>>

(***************************************************************************)
(* The older pipeline.  Step 3 divides the state's table (the table        *)
(* divided) by the national table (the table it is divided by).            *)
(***************************************************************************)
InitLegacy ==
    /\ nat_state_out = NoRatio
    /\ nat_ratio_file = NoTable
    /\ reg_ratio_file = NoTable
    /\ weight_out = NoRatio
    /\ pct_file = NoTable
    /\ pct_out = NoRatio

\* step3_divide_national_state
Step3DivideNationalState ==
    /\ ratio_out = NoRatio
    /\ nat_state_out = NoRatio
    /\ nat_state_out' = step3_divide_national_state(denom_file, numer_file)
    /\ UNCHANGED <<nat_ratio_file, reg_ratio_file, weight_out, pct_file, pct_out,
                   codecVars, builderVars, regionalVars, saicVars, divideVars, sourceVars, runVars>>

\* The files step 3 can leave in proportional_national_state: each cell a
\* ratio, infinite or missing.
NatRatioTables ==
    UNION {{Table(<<ColA>>, [i \in 1..n |-> Row(RowLabel(i), cells[i])]) :
               cells \in [1..n -> [{ColA} -> {Ratio(2 * Unit), RatioInf, RatioNaN}]]} :
             n \in 0..MaxRows}

\* The files step 5 can leave in proportional_state_regions: each cell a
\* ratio, zero or missing.
RegRatioTables ==
    UNION {{Table(<<c>>, [i \in 1..n |-> Row(RowLabel(i), cells[i])]) :
               cells \in [1..n -> [{c} -> {Ratio(Unit \div 2), Ratio(0), RatioNaN}]]} :
             c \in {ColA, ColB}, n \in 0..MaxRows}

WriteNatRatio ==
    /\ weight_out = NoRatio
    /\ nat_ratio_file = NoTable
    /\ \E t \in NatRatioTables : nat_ratio_file' = t
    /\ UNCHANGED <<nat_state_out, reg_ratio_file, weight_out, pct_file, pct_out,
                   codecVars, builderVars, regionalVars, saicVars, divideVars, sourceVars, runVars>>

WriteRegRatio ==
    /\ weight_out = NoRatio
    /\ reg_ratio_file = NoTable
    /\ \E t \in RegRatioTables : reg_ratio_file' = t
    /\ UNCHANGED <<nat_state_out, nat_ratio_file, weight_out, pct_file, pct_out,
                   codecVars, builderVars, regionalVars, saicVars, divideVars, sourceVars, runVars>>

\* step6_divide_nation_state_state_region
Step6DivideNationStateStateRegion ==
    /\ weight_out = NoRatio
    /\ weight_out' = step6_divide_nation_state_state_region(nat_ratio_file, reg_ratio_file)
    /\ UNCHANGED <<nat_state_out, nat_ratio_file, reg_ratio_file, pct_file, pct_out,
                   codecVars, builderVars, regionalVars, saicVars, divideVars, sourceVars, runVars>>

(***************************************************************************)
(* The builders of main.py on a source dataset: records are read, then one *)
(* of the builders runs.                                                   *)
(***************************************************************************)
SrcRec(ent, mun, year, act, val) ==
    [ent |-> ent, mun |-> mun, year |-> year, act |-> act, val |-> val]

\* An activity whose label comes after the total labels in the order of texts.
LabelZona == <<"Z", "o", "n", "a">>

\* The records tried: two sectors and the total of the nation, of the state
\* and of a municipality, a sector of another municipality, and an activity
\* of the nation that is no sector.
SourceSamples ==
    { SrcRec("00 Total Nacional", "", 2018, LabelSectorB, NumCell(20000)),
      SrcRec("00 Total Nacional", "", 2018, LabelZona, NumCell(5000)),
      SrcRec("00 Total Nacional", "", 2018, LabelSectorA, NumCell(10000)),
      SrcRec("00 Total Nacional", "", 2018, LabelTotalNacional, NumCell(30000)),
      SrcRec("00 Total Nacional", "", 2023, LabelSectorA, NACell),
      SrcRec("28 Tamaulipas", "", 2018, LabelSectorB, NumCell(20000)),
      SrcRec("28 Tamaulipas", "", 2018, LabelTotalEstatal, NumCell(30000)),
      SrcRec("28 Tamaulipas", "", 2018, LabelSectorA, NACell),
      SrcRec("28 Tamaulipas", "003 Altamira", 2018, LabelSectorB, NACell),
      SrcRec("28 Tamaulipas", "003 Altamira", 2018, LabelTotalMunicipal, NumCell(30000)),
      SrcRec("28 Tamaulipas", "003 Altamira", 2023, LabelSectorA, NumCell(10000)),
      SrcRec("28 Tamaulipas", "002 Aldama", 2018, LabelSectorA, NumCell(10000)) }

NotBuilt == [by |-> "none", status |-> "none", files |-> NoFiles]

\* pd.read_csv(path) of a municipal file: a text that spells a missing
\* value is read as one.
read_csv(df) ==
    Frame(df.cols,
          [i \in 1..Len(df.rows) |->
              Row(df.rows[i].label,
                  [c \in ColSet(df.cols) |->
                      IF df.rows[i].cells[c].kind = "str" /\ df.rows[i].cells[c].s \in NaTexts
                      THEN NACell ELSE df.rows[i].cells[c]])])

\* The source dataset as the regional builder reads it: a record for each
\* metric column of each record.
AsDataset(recs) ==
    Dataset([k \in 1..(Len(recs) * Len(SourceCodes)) |->
                [ent  |-> recs[((k - 1) \div Len(SourceCodes)) + 1].ent,
                 mun  |-> recs[((k - 1) \div Len(SourceCodes)) + 1].mun,
                 act  |-> IF recs[((k - 1) \div Len(SourceCodes)) + 1].act = LabelTotalMunicipal
                          THEN "Total municipal" ELSE "Sector",
                 year |-> NatText(recs[((k - 1) \div Len(SourceCodes)) + 1].year),
                 val  |-> recs[((k - 1) \div Len(SourceCodes)) + 1].val,
                 code |-> SourceCodes[((k - 1) % Len(SourceCodes)) + 1]]])

InitSource ==
    /\ src_recs = <<>>
    /\ built = NotBuilt

\* One more record of SAIC_clean.csv.
ReadSource ==
    /\ built = NotBuilt
    /\ Len(src_recs) < MaxRecords
    /\ \E r \in SourceSamples : src_recs' = Append(src_recs, r)
    /\ UNCHANGED <<built, codecVars, builderVars, regionalVars, saicVars, divideVars, legacyVars, runVars>>

\* build_national_wide_csv()
BuildNational ==
    /\ built = NotBuilt
    /\ \E res \in {build_national_wide_csv(src_recs)} :
          built' = [by |-> "national", status |-> res.status, files |-> res.files]
    /\ UNCHANGED <<src_recs, codecVars, builderVars, regionalVars, saicVars, divideVars, legacyVars, runVars>>

\* build_tamaulipas_wide_csv()
BuildTamaulipas ==
    /\ built = NotBuilt
    /\ \E res \in {build_tamaulipas_wide_csv(src_recs)} :
          built' = [by |-> "state", status |-> res.status, files |-> res.files]
    /\ UNCHANGED <<src_recs, codecVars, builderVars, regionalVars, saicVars, divideVars, legacyVars, runVars>>

\* build_tam_municipal_wide_csvs()
BuildMunicipal ==
    /\ built = NotBuilt
    /\ \E res \in {build_tam_municipal_wide_csvs(src_recs)} :
          built' = [by |-> "municipal", status |-> res.status, files |-> res.files]
    /\ UNCHANGED <<src_recs, codecVars, builderVars, regionalVars, saicVars, divideVars, legacyVars, runVars>>

\* build_tam_regional_wide_csvs(), run after the municipal builder on the
\* files it wrote.
BuildRegionalOfSource ==
    /\ built.by = "municipal"
    /\ built.status = "written"
    /\ reg_stage = "load"
    /\ \E res \in {build_tam_regional_wide_csvs([m \in DOMAIN built.files |-> read_csv(built.files[m])],
                                                AsDataset(src_recs))} :
          /\ reg_files' = res.outputs
          /\ reg_stage' = IF res.raised THEN "raised" ELSE "done"
          /\ reg_stdout' = main_regional_stdout(res)
    /\ UNCHANGED <<mun_files, df_saic, sourceVars, codecVars, builderVars, saicVars, divideVars,
                   legacyVars, runVars>>

(***************************************************************************)
(* The percentage stage on one file of output/csv.                         *)
(***************************************************************************)
\* What a cell of the file may hold: in the first column 0, 2, 3 or nothing,
\* in the second 0 or 3.
PctCells(c) == IF c = ColA THEN {Fl(0), Fl(2 * Unit), Fl(3 * Unit), NaN} ELSE {Fl(0), Fl(3 * Unit)}

\* One column with the rows 5 and 15 and the total 20.
PctExample ==
    Table(<<ColA>>, <<Row(RowLabel(1), [c \in {ColA} |-> Fl(5 * Unit)]),
                      Row(RowLabel(2), [c \in {ColA} |-> Fl(15 * Unit)]),
                      Row(LabelTotal, [c \in {ColA} |-> Fl(20 * Unit)])>>)

\* The files tried: the last row is the Total row that process_saic.py adds.
PctTables ==
    {PctExample} \cup
    UNION {{Table(cols, [i \in 1..n |-> Row(IF i < n THEN RowLabel(i) ELSE LabelTotal, cells[i])]) :
               cells \in [1..n -> CellChoices([c \in ColSet(cols) |-> PctCells(c)])]} :
             cols \in {<<ColA>>, <<ColA, ColB>>}, n \in 0..MaxRows}

WritePctFile ==
    /\ pct_out = NoRatio
    /\ pct_file = NoTable
    /\ \E t \in PctTables : pct_file' = t
    /\ UNCHANGED <<nat_state_out, nat_ratio_file, reg_ratio_file, weight_out, pct_out,
                   codecVars, builderVars, regionalVars, saicVars, divideVars, sourceVars, runVars>>

\* process_csv_last_row(file), for a file that glob found.
ProcessCsvLastRow ==
    /\ pct_out = NoRatio
    /\ pct_file.exists
    /\ pct_out' = process_csv_last_row(pct_file)
    /\ UNCHANGED <<nat_state_out, nat_ratio_file, reg_ratio_file, weight_out, pct_file,
                   codecVars, builderVars, regionalVars, saicVars, divideVars, sourceVars, runVars>>

(***************************************************************************)
(* run_all.py: the scripts one after the other, each in a child process.   *)
(***************************************************************************)
NoInput == [missing |-> "", nat |-> FALSE, sta |-> FALSE, codes |-> {}]

\* The variable columns an input may have: two that the ratio stages look
\* for and one that they do not.
InputCodes == {"A111A", "A121A", "A131A"}

\* The inputs tried: an identifying column may be missing, an entity may be
\* without records.
RunInputs ==
    [missing : {"", "Año Censal", "Entidad", "Municipio", "Actividad económica"},
     nat : BOOLEAN, sta : BOOLEAN, codes : SUBSET InputCodes]

StaleRegional == File("28_Regional", "", "OLD", "Regional")

StaleMoved == File("00_Total_Nacional", "", "", "00_Total_Nacional")

\* What output/csv may hold before the first run: files of an older run,
\* and an entry that is no file, link or folder.
PriorContents ==
    {Fs([p \in S |-> IF p = StaleRegional THEN Content({"Sur"}, <<0>>) ELSE Content({}, <<0>>)],
        {<<p.dir, "">> : p \in S}, o) :
        S \in SUBSET {StaleRegional, StaleMoved}, o \in {{}, {"pipe"}}}

InitRun ==
    /\ run_input = NoInput
    /\ run_fs = Fs(<<>>, {}, {})
    /\ run_i = 0
    /\ run_child = ""
    /\ run_stdout = <<>>
    /\ run_count = 0
    /\ run_first = Fs(<<>>, {}, {})

OthersUnchanged ==
    UNCHANGED <<codecVars, builderVars, regionalVars, saicVars, divideVars, legacyVars, sourceVars>>

\* The input and the output area are what they are when run_all.py starts.
PrepareRun ==
    /\ run_i = 0
    /\ \E input \in RunInputs : run_input' = input
    /\ \E fs \in PriorContents : run_fs' = fs
    /\ run_i' = 1
    /\ UNCHANGED <<run_child, run_stdout, run_count, run_first>>
    /\ OthersUnchanged

\* print(f"Running {script}...") and os.system starts the child.
StartScript ==
    /\ run_i \in 1..Len(scripts)
    /\ run_child = ""
    /\ run_child' = scripts[run_i]
    /\ run_stdout' = Append(run_stdout, Line("running", <<scripts[run_i], "", "">>))
    /\ UNCHANGED <<run_input, run_fs, run_i, run_count, run_first>>
    /\ OthersUnchanged

\* The child runs to its end, os.system returns its exit code and run_all
\* prints the outcome and goes on to the next script.
Finish(script, res) ==
    /\ run_child = script
    /\ run_fs' = res.fs
    /\ run_stdout' = run_stdout \o res.out
                        \o <<Line(IF res.exit # 0 THEN "failed" ELSE "finished", <<script, "", "">>)>>
    /\ run_child' = ""
    /\ run_i' = run_i + 1
    /\ run_count' = IF run_i = Len(scripts) THEN run_count + 1 ELSE run_count
    /\ run_first' = IF run_i = Len(scripts) /\ run_count = 0 THEN res.fs ELSE run_first
    /\ UNCHANGED run_input
    /\ OthersUnchanged

RunClear == \E res \in {clear(run_fs)} : Finish("clear.py", res)

RunProcessSaic == \E res \in {process_saic_py(run_fs, run_input)} : Finish("process_saic.py", res)

RunDivide == \E res \in {divide_py(run_fs)} : Finish("divide.py", res)

RunRegional == \E res \in {regional_py(run_fs)} : Finish("regional.py", res)

RunDivide2 == \E res \in {divide2_py(run_fs)} : Finish("divide2.py", res)

RunFinal == \E res \in {final_py(run_fs)} : Finish("final.py", res)

\* run_all.py is run again on the same input.
RunAgain ==
    /\ run_i = Len(scripts) + 1
    /\ run_count < MaxRuns
    /\ run_i' = 1
    /\ run_stdout' = <<>>
    /\ UNCHANGED <<run_input, run_fs, run_child, run_count, run_first>>
    /\ OthersUnchanged

(***************************************************************************)
(* Specifications.                                                         *)
(***************************************************************************)
Init ==
    InitCodec /\ InitBuilder /\ InitRegional /\ InitSaic /\ InitDivide /\ InitLegacy /\ InitSource
      /\ InitRun

NextCodec == TypeChar \/ PutNumber \/ ClearCell \/ Render

SpecCodec == Init /\ [][NextCodec]_vars

\* The builders of main.py.  A run follows one builder: a frame is built and
\* closed, or the regional files are built from municipal files.
NextTables == AddRow \/ AppendChecksumRow \/ PutDataset \/ WriteMuniFile \/ BuildRegional

SpecTables == Init /\ [][NextTables]_vars

NextSaic == ReadRecord \/ ProcessSaic

SpecSaic == Init /\ [][NextSaic]_vars

NextDivide == WriteNumerator \/ WriteDenominator \/ Divide \/ Divide2

SpecDivide == Init /\ [][NextDivide]_vars

NextStep3 == WriteNumerator \/ WriteDenominator \/ Step3DivideNationalState

SpecStep3 == Init /\ [][NextStep3]_vars

NextSource ==
    ReadSource \/ BuildNational \/ BuildTamaulipas \/ BuildMunicipal \/ BuildRegionalOfSource

SpecSource == Init /\ [][NextSource]_vars

NextRun ==
    \/ PrepareRun
    \/ StartScript
    \/ RunClear
    \/ RunProcessSaic
    \/ RunDivide
    \/ RunRegional
    \/ RunDivide2
    \/ RunFinal
    \/ RunAgain

SpecRun == Init /\ [][NextRun]_vars

NextPercent == WritePctFile \/ ProcessCsvLastRow

SpecPercent == Init /\ [][NextPercent]_vars

NextWeight == WriteNatRatio \/ WriteRegRatio \/ Step6DivideNationStateStateRegion

SpecWeight == Init /\ [][NextWeight]_vars

(***************************************************************************)
(* The grammar of cell texts (spec 4.1), read generously: the marker is C  *)
(* in either case or the legacy n, blanks may stand anywhere around the    *)
(* plus sign, and a number is anything float() accepts.                    *)
(***************************************************************************)
Markers == {"C", "c", "n", "N"}

\* "<count><marker>" or "<marker>": digits, or nothing, before a marker.
IsCountMarker(t) ==
    /\ Len(t) > 0
    /\ t[Len(t)] \in Markers
    /\ (DropLast(t) = <<>> \/ IsDigitStr(DropLast(t)))

MatchesGrammar(text) ==
    LET s == Strip(text)
        t == Remove(s, " ")
    IN  \/ s = <<>>
        \/ Lower(s) = <<"n", "a", "n">>
        \/ FloatParse(s).ok
        \/ Upper(s) = <<"N", "/", "A">>
        \/ (Len(s) = 1 /\ s[1] \in Markers)
        \/ (Len(t) > 1 /\ t[Len(t)] \in Markers /\ FloatParse(DropLast(t)).ok)
        \/ \E i \in 1..Len(s) :
              /\ s[i] = "+"
              /\ FloatParse(SubSeq(s, 1, i - 1)).ok
              /\ IsCountMarker(Remove(SubSeq(s, i + 1, Len(s)), " "))

(***************************************************************************)
(* C2.  Round trip of the codec of _append_checksum_row: a value that is   *)
(* Absent, Numeric(base) or Censored(base, count >= 1), rendered as the    *)
(* checksum cell is rendered and parsed again by parse_val, gives back the *)
(* same base, the same count and the same present/absent flag.             *)
(***************************************************************************)
C2_RoundTrip == rendered.tag # "none" => parsed = SumsOf(rendered)

C2_Witness ==
    /\ rendered = [tag |-> "Censored", base |-> 1010, count |-> 2]
    /\ cell = StrCell(<<"1", ".", "0", "1", " ", "+", " ", "2", "C">>)
    /\ parsed = [base |-> Fl(1010), k |-> 2, had |-> TRUE]

(***************************************************************************)
(* What the properties below speak of.                                     *)
(***************************************************************************)
RECURSIVE SumSeq(_)
SumSeq(q) == IF q = <<>> THEN 0 ELSE q[1] + SumSeq(Tail(q))

\* The frames that _append_checksum_row closed: the frame of the builder and
\* the municipal files.
ClosedFrames ==
    (IF stage = "done" /\ wide.rows # <<>> THEN {wide} ELSE {})
      \cup {mun_files[m] : m \in DOMAIN mun_files}

\* The rows a closed frame had before its checksum row, and that row.
InputOf(df) == SubSeq(df.rows, 1, Len(df.rows) - 1)

ChecksumOf(df) == df.rows[Len(df.rows)]

\* The cells of a column in the rows whose label starts with 'Sector '.
SectorCellsIn(rows, c) ==
    [i \in 1..Len(SelectSeq(rows, LAMBDA r : IsSector(r.label))) |->
        SelectSeq(rows, LAMBDA r : IsSector(r.label))[i].cells[c]]

\* The text of a cell from the blank before its plus sign on.
CountSuffix(x) ==
    IF x.kind = "str" /\ Contains(x.s, "+")
    THEN SubSeq(x.s, IndexOf(x.s, "+") - 1, Len(x.s))
    ELSE <<>>

ExpectedSuffix(k) ==
    IF k = 0 THEN <<>>
    ELSE IF k = 1 THEN <<" ", "+", " ", "C">>
    ELSE <<" ", "+", " ">> \o NatText(k) \o <<"C">>

\* The municipalities of a region whose file exists, in the order of the map.
LoadedOf(region) ==
    SelectSeq(regions_map[CHOOSE i \in 1..Len(regions_map) : regions_map[i].region = region].municipios,
              LAMBDA m : m \in DOMAIN mun_files)

\* The cell a municipal table holds for an activity and a column: missing
\* when it lacks the row or the column.
Contribution(dfm, act, c) ==
    IF c \in ColSet(dfm.cols) /\ \E i \in 1..Len(dfm.rows) : dfm.rows[i].label = act
    THEN dfm.rows[CHOOSE i \in 1..Len(dfm.rows) :
                     /\ dfm.rows[i].label = act
                     /\ \A j \in 1..(i - 1) : dfm.rows[j].label # act].cells[c]
    ELSE NACell

Contributions(region, act, c) ==
    [j \in 1..Len(LoadedOf(region)) |-> Contribution(mun_files[LoadedOf(region)[j]], act, c)]

\* The sector cells of the regional files: file, row and column.
RegionalSectorCells ==
    UNION {{<<n, i, c>> : i \in {k \in 1..Len(reg_files[n].df.rows) :
                                    IsSector(reg_files[n].df.rows[k].label)},
                         c \in ColSet(reg_files[n].df.cols)} :
              n \in 1..Len(reg_files)}

RegionalCellAt(t) == reg_files[t[1]].df.rows[t[2]].cells[t[3]]

ContributionsAt(t) ==
    Contributions(reg_files[t[1]].region, reg_files[t[1]].df.rows[t[2]].label, t[3])

\* A cell that is missing, blank or 'nan'.
IsBlank(x) ==
    \/ x.kind = "na"
    \/ x.kind = "str" /\ (Strip(x.s) = <<>> \/ Lower(Strip(x.s)) = <<"n", "a", "n">>)

\* A cell that holds 'N/A' in any letter case.
IsNotApplicable(x) == x.kind = "str" /\ Upper(Strip(x.s)) = <<"N", "/", "A">>

\* A cell that holds a number or a censored value.
HoldsValue(x) ==
    \/ x.kind = "num"
    \/ /\ x.kind = "str"
       /\ ~IsBlank(x)
       /\ \/ FloatParse(x.s).ok
          \/ \E i \in 1..Len(x.s) :
                /\ x.s[i] = "+"
                /\ FloatParse(SubSeq(x.s, 1, i - 1)).ok
                /\ IsCountMarker(Remove(SubSeq(x.s, i + 1, Len(x.s)), " "))

(***************************************************************************)
(* C1.  Censoring conservation: the count written in a checksum cell is    *)
(* the sum of the counts parse_val reads in the sector cells of the        *)
(* column, and the count written in a regional sector cell is the sum of   *)
(* the counts parse_cell reads in the municipal cells that contribute to   *)
(* it; nothing is written for 0, ' + C' for 1 and ' + <k>C' for k > 1.     *)
(***************************************************************************)
C1_CountConserved ==
    /\ \A df \in ClosedFrames : \A c \in ColSet(df.cols) :
          CountSuffix(ChecksumOf(df).cells[c]) =
              ExpectedSuffix(SumSeq([i \in 1..Len(SectorCellsIn(InputOf(df), c)) |->
                                        parse_val(SectorCellsIn(InputOf(df), c)[i]).k]))
    /\ \A t \in RegionalSectorCells :
          CountSuffix(RegionalCellAt(t)) =
              ExpectedSuffix(SumSeq([j \in 1..Len(ContributionsAt(t)) |->
                                        parse_cell(ContributionsAt(t)[j]).c]))

C1_Witness ==
    /\ reg_stage = "done"
    /\ DOMAIN mun_files = {"002 Aldama", "003 Altamira"}
    /\ ChecksumOf(mun_files["002 Aldama"]).cells[ColA] =
          StrCell(<<"1", "0", " ", "+", " ", "2", "C">>)
    /\ ChecksumOf(mun_files["003 Altamira"]).cells[ColA] = StrCell(Text5C)
    /\ Len(reg_files) = 1
    /\ reg_files[1].df.rows[1].label = LabelSectorA
    /\ reg_files[1].df.rows[1].cells[ColA] = StrCell(<<"5", " ", "+", " ", "C">>)
    /\ reg_files[1].df.rows[2].label = LabelSectorB
    /\ reg_files[1].df.rows[2].cells[ColA] = StrCell(<<"1", "0", " ", "+", " ", "2", "C">>)

\* The sums of a list of parsed cells, each (base, k, had).
C3_Had(ps) == \E i \in 1..Len(ps) : ps[i].had

C3_Base(ps) ==
    SumSeq([i \in 1..Len(ps) |-> IF ps[i].had /\ ~ps[i].base.nan THEN ps[i].base.v ELSE 0])

C3_Count(ps) == SumSeq([i \in 1..Len(ps) |-> IF ps[i].had THEN ps[i].k ELSE 0])

\* The checksum cell x holds the sums of these parsed cells.
C3_HoldsSums(x, ps) ==
    IF C3_Had(ps)
    THEN /\ x.kind = "str"
         /\ parse_val(x) = [base |-> Fl(C3_Base(ps)), k |-> C3_Count(ps), had |-> TRUE]
    ELSE x = NACell

C3_Parsed(cells) == [i \in 1..Len(cells) |-> parse_val(cells[i])]

(***************************************************************************)
(* C3.  The checksum row sums, per column, exactly the rows whose label    *)
(* starts with 'Sector ': a Total row, a row of another label or an        *)
(* earlier checksum row adds nothing.  Rows Sector A, Sector B and Total   *)
(* with 10 and '5 + C' in a column give the checksum cell '15 + C'.        *)
(***************************************************************************)
C3_SectorRowsOnly ==
    /\ \A df \in ClosedFrames : \A c \in ColSet(df.cols) :
          C3_HoldsSums(ChecksumOf(df).cells[c], C3_Parsed(SectorCellsIn(InputOf(df), c)))
    /\ ( /\ stage = "done"
         /\ Len(wide.rows) = 4
         /\ wide.rows[1].label = LabelSectorA /\ wide.rows[1].cells[ColA] = NumCell(10000)
         /\ wide.rows[2].label = LabelSectorB /\ wide.rows[2].cells[ColA] = StrCell(Text5C)
         /\ wide.rows[3].label = LabelTotal )
       => wide.rows[4].cells[ColA] = StrCell(<<"1", "5", " ", "+", " ", "C">>)

C3_Witness ==
    /\ stage = "done"
    /\ Len(wide.rows) = 4
    /\ wide.rows[1].label = LabelSectorA /\ wide.rows[1].cells[ColA] = NumCell(10000)
    /\ wide.rows[2].label = LabelSectorB /\ wide.rows[2].cells[ColA] = StrCell(Text5C)
    /\ wide.rows[3].label = LabelTotal /\ wide.rows[3].cells[ColA] = NumCell(30000)
    /\ wide.rows[4].label = ChecksumLabel
    /\ wide.rows[4].cells[ColA] = StrCell(<<"1", "5", " ", "+", " ", "C">>)

(***************************************************************************)
(* C4.  The Total row that add_total_row_to_df appends in process_saic is  *)
(* the sum of the sector rows only: a total row of the source data         *)
(* ('Total nacional', 'Total estatal', 'Total municipal') that the table   *)
(* holds is not summed into it, in the national and state tables and in    *)
(* the regional table.                                                     *)
(***************************************************************************)
C4_TotalFromSectorsOnly ==
    \A k \in DOMAIN saic_files : \A c \in ColSet(saic_files[k].cols) :
        ChecksumOf(saic_files[k]).cells[c] =
            SumSeq([i \in 1..(Len(saic_files[k].rows) - 1) |->
                       IF StartsWith(saic_files[k].rows[i].label, TotalPrefix)
                       THEN 0 ELSE saic_files[k].rows[i].cells[c]])

(***************************************************************************)
(* C5.  A regional sector cell is the sum over the municipal tables loaded *)
(* for the region of the cell of the same activity and column: the base is *)
(* the sum of the bases and the count the sum of the counts, and a table   *)
(* that lacks the row or the column adds nothing.  Cells Absent and 7 of   *)
(* two municipalities give '7'.                                            *)
(***************************************************************************)
C5_RegionalCellIsSum ==
    \A t \in RegionalSectorCells :
        /\ RegionalCellAt(t).kind = "str"
        /\ parse_cell(RegionalCellAt(t)) =
              [base |-> Fl(SumSeq([j \in 1..Len(ContributionsAt(t)) |->
                                      parse_cell(ContributionsAt(t)[j]).base.v])),
               c    |-> SumSeq([j \in 1..Len(ContributionsAt(t)) |->
                                   parse_cell(ContributionsAt(t)[j]).c])]
        /\ ContributionsAt(t) \in {<<NACell, NumCell(7000)>>, <<NumCell(7000), NACell>>}
              => RegionalCellAt(t) = StrCell(<<"7">>)

C5_Witness ==
    /\ reg_stage = "done"
    /\ \E t \in RegionalSectorCells :
          /\ ContributionsAt(t) = <<NACell, NumCell(7000)>>
          /\ RegionalCellAt(t) = StrCell(<<"7">>)
    /\ \E t \in RegionalSectorCells :
          /\ ContributionsAt(t) = <<StrCell(Text5C), NumCell(7000)>>
          /\ RegionalCellAt(t) = StrCell(<<"1", "2", " ", "+", " ", "C">>)
    /\ \E t \in RegionalSectorCells :
          /\ t[3] \notin ColSet(mun_files["003 Altamira"].cols)
          /\ RegionalCellAt(t) = StrCell(Text5C)

(***************************************************************************)
(* C6.  When every municipality of the region has an Absent cell for an    *)
(* activity and a column (missing, blank, 'N/A', or no such row or         *)
(* column), the regional cell is Absent: an empty cell, not the number 0.  *)
(***************************************************************************)
C6_AllAbsentIsAbsent ==
    \A t \in RegionalSectorCells :
        (\A j \in 1..Len(ContributionsAt(t)) :
            IsBlank(ContributionsAt(t)[j]) \/ IsNotApplicable(ContributionsAt(t)[j]))
          => RegionalCellAt(t) \in {NACell, StrCell(<<>>)}

(***************************************************************************)
(* C7.  The checksum cell of a column is missing when the column has no    *)
(* sector row or when every sector cell of it is missing, blank or 'nan';  *)
(* it is present as soon as one sector cell holds a number or a censored   *)
(* value.                                                                  *)
(***************************************************************************)
C7_AbsentIffNothingPresent ==
    \A df \in ClosedFrames : \A c \in ColSet(df.cols) :
        /\ (\A i \in 1..Len(SectorCellsIn(InputOf(df), c)) :
               IsBlank(SectorCellsIn(InputOf(df), c)[i]))
             => ChecksumOf(df).cells[c] = NACell
        /\ (\E i \in 1..Len(SectorCellsIn(InputOf(df), c)) :
               HoldsValue(SectorCellsIn(InputOf(df), c)[i]))
             => ChecksumOf(df).cells[c].kind = "str"

C7_Witness ==
    /\ stage = "done"
    /\ Len(wide.rows) = 4
    /\ wide.rows[1].label = LabelSectorA
    /\ wide.rows[1].cells[ColA] = StrCell(<<" ">>) /\ wide.rows[1].cells[ColB] = NACell
    /\ wide.rows[2].label = LabelSectorB
    /\ wide.rows[2].cells[ColA] = StrCell(<<"n", "a", "n">>) /\ wide.rows[2].cells[ColB] = StrCell(Text5C)
    /\ wide.rows[3].label = LabelTotal
    /\ wide.rows[4].cells[ColA] = NACell
    /\ wide.rows[4].cells[ColB] = StrCell(Text5C)

(***************************************************************************)
(* C8.  A sector cell that holds 'N/A' is not a present value: a column    *)
(* whose sector cells all hold 'N/A' has a missing checksum cell.          *)
(***************************************************************************)
C8_NotApplicableIsAbsent ==
    \A df \in ClosedFrames : \A c \in ColSet(df.cols) :
        ( /\ SectorCellsIn(InputOf(df), c) # <<>>
          /\ \A i \in 1..Len(SectorCellsIn(InputOf(df), c)) :
                IsNotApplicable(SectorCellsIn(InputOf(df), c)[i]) )
          => ChecksumOf(df).cells[c] = NACell

(***************************************************************************)
(* C9.  A cell text that matches none of the grammar rules parses to       *)
(* Absent: base 0, count 0, had_value False.                               *)
(***************************************************************************)
C9_UnmatchedIsAbsent ==
    (cell.kind = "str" /\ ~MatchesGrammar(cell.s)) => parsed = Absent3


\* The cell of a table under an activity label and a column name, or none.
HasKey(t, act, c) ==
    c \in ColSet(t.cols) /\ \E i \in 1..Len(t.rows) : t.rows[i].label = act

KeyedCell(t, act, c) ==
    t.rows[CHOOSE i \in 1..Len(t.rows) : t.rows[i].label = act].cells[c]

\* The ratio of the two cells that share the key (act, c), Undefined when a
\* table lacks the key or the denominator is zero.
KeyedRatio(num, den, act, c) ==
    IF HasKey(num, act, c) /\ HasKey(den, act, c)
    THEN FDiv(KeyedCell(num, act, c), ZeroToNaN(KeyedCell(den, act, c)))
    ELSE RatioNaN

(***************************************************************************)
(* C11.  Divide pairs cells by key: each cell of a table written by        *)
(* divide.py or divide2.py is the ratio of the numerator cell and the      *)
(* denominator cell with the same activity label and the same column name, *)
(* and Undefined when only one of the two tables has that key; cells are   *)
(* never divided because they share a position.                           *)
(***************************************************************************)
C11_DividePairsByKey ==
    ratio_out.status = "written" =>
        \A i \in 1..Len(ratio_out.df.rows) : \A c \in ColSet(ratio_out.df.cols) :
            ratio_out.df.rows[i].cells[c]
                = KeyedRatio(numer_file, denom_file, ratio_out.df.rows[i].label, c)

(***************************************************************************)
(* C12.  In the state-over-national stage of the older pipeline, a cell    *)
(* whose national value is 0 gives Undefined, whatever the state's value:  *)
(* a zero denominator is never written as infinity or as zero.            *)
(***************************************************************************)
C12_ZeroNationalIsUndefined ==
    nat_state_out.status = "written" =>
        \A i \in 1..Len(nat_state_out.df.rows) : \A c \in ColSet(nat_state_out.df.cols) :
            (~denom_file.rows[i].cells[c].nan /\ denom_file.rows[i].cells[c].v = 0)
                => nat_state_out.df.rows[i].cells[c] = RatioNaN

\* A ratio that is a number: neither missing nor infinite.
IsFinite(r) == ~r.nan /\ ~r.inf

\* The weight tables written from two tables with as many rows.
WeightWritten ==
    /\ weight_out.status = "written"
    /\ Len(nat_ratio_file.rows) = Len(reg_ratio_file.rows)

NatRatioAt(i) == nat_ratio_file.rows[i].cells[nat_ratio_file.cols[1]]

RegRatioAt(i) == reg_ratio_file.rows[i].cells[reg_ratio_file.cols[1]]

WeightAt(i) == weight_out.df.rows[i].cells[weight_out.df.cols[1]]

(***************************************************************************)
(* C13, as stated.  The composite weight stage multiplies the two ratio    *)
(* tables cell by cell: an output cell is the product of the two ratios    *)
(* when both are defined, and Undefined when either is Undefined.          *)
(***************************************************************************)
C13_WeightIsProduct ==
    WeightWritten =>
        \A i \in 1..Len(weight_out.df.rows) :
            IF IsFinite(NatRatioAt(i)) /\ IsFinite(RegRatioAt(i))
            THEN WeightAt(i) = Ratio((NatRatioAt(i).v * RegRatioAt(i).v) \div Unit)
            ELSE (NatRatioAt(i).nan \/ RegRatioAt(i).nan) => WeightAt(i) = RatioNaN

(***************************************************************************)
(* C13, amended.  The composite weight stage divides the two ratio tables  *)
(* cell by cell: an output cell is the quotient of the national/state      *)
(* ratio by the state/region ratio when both are numbers and the latter    *)
(* is not zero, and Undefined when either is Undefined or the              *)
(* state/region ratio is zero.                                             *)
(***************************************************************************)
C13_WeightIsQuotient ==
    WeightWritten =>
        \A i \in 1..Len(weight_out.df.rows) :
            /\ (NatRatioAt(i).nan \/ RegRatioAt(i).nan
                   \/ (IsFinite(RegRatioAt(i)) /\ RegRatioAt(i).v = 0))
                  => WeightAt(i) = RatioNaN
            /\ (IsFinite(NatRatioAt(i)) /\ IsFinite(RegRatioAt(i)) /\ RegRatioAt(i).v # 0)
                  => /\ IsFinite(WeightAt(i))
                     /\ WeightAt(i).v * RegRatioAt(i).v <= NatRatioAt(i).v * Unit
                     /\ NatRatioAt(i).v * Unit < (WeightAt(i).v + 1) * RegRatioAt(i).v

\* A weight table with a cell 2 / 0.5 = 4 and a cell divided by zero.
C13_Witness ==
    /\ WeightWritten
    /\ \E i \in 1..Len(weight_out.df.rows) :
          /\ NatRatioAt(i) = Ratio(2 * Unit)
          /\ RegRatioAt(i) = Ratio(Unit \div 2)
          /\ WeightAt(i) = Ratio(4 * Unit)
    /\ \E i \in 1..Len(weight_out.df.rows) :
          /\ NatRatioAt(i) = Ratio(2 * Unit)
          /\ RegRatioAt(i) = Ratio(0)
          /\ WeightAt(i) = RatioNaN

\* Two records of the list are of the same activity and the same year.
SameKeyTwice(recs) ==
    \E i, j \in 1..Len(recs) : i < j /\ recs[i].act = recs[j].act /\ recs[i].year = recs[j].year

\* The records of the source of one entity: the nation, the state, or a
\* municipality of the state.
NationRecs(recs) == SelectSeq(recs, LAMBDA r : r.ent = "00 Total Nacional")

StateRecs(recs) == SelectSeq(recs, LAMBDA r : r.ent = "28 Tamaulipas" /\ r.mun = "")

MunRecs(recs, m) == SelectSeq(recs, LAMBDA r : r.ent = "28 Tamaulipas" /\ r.mun = m)

\* The builders of main.py fail on a duplicated key, and write no file of
\* the entity.
C14_MainFails ==
    /\ (built.by = "national" /\ SameKeyTwice(NationRecs(src_recs)))
          => (built.status = "raised" /\ DOMAIN built.files = {})
    /\ (built.by = "state" /\ SameKeyTwice(StateRecs(src_recs)))
          => (built.status = "raised" /\ DOMAIN built.files = {})
    /\ built.by = "municipal"
          => \A m \in {"002 Aldama", "003 Altamira"} :
                SameKeyTwice(MunRecs(src_recs, m))
                    => (built.status = "raised" /\ m \notin DOMAIN built.files)

\* The census years of process_saic.py.
InCensusYears(recs) == SelectSeq(recs, LAMBDA r : r.year \in {2008, 2013, 2018, 2023})

\* process_saic.py writes no file of an entity with a duplicated key.
C14_SaicFails ==
    saic_stage = "done" =>
        /\ SameKeyTwice(InCensusYears(SelectSeq(saic_input, LAMBDA r : r.ent = "00 Total Nacional" /\ r.mun = "")))
              => \A k \in DOMAIN saic_files : k.folder # "00_Total_Nacional"
        /\ SameKeyTwice(InCensusYears(SelectSeq(saic_input, LAMBDA r : r.ent = "28 Tamaulipas" /\ r.mun = "")))
              => \A k \in DOMAIN saic_files : k.folder # "28_Tamaulipas"
        /\ (\E m \in {"002 Aldama", "003 Altamira"} :
                SameKeyTwice(InCensusYears(SelectSeq(saic_input, LAMBDA r : r.mun = m))))
              => \A k \in DOMAIN saic_files : k.folder # "28_Regional"

(***************************************************************************)
(* C14.  When two input records map to the same (activity, code_period)    *)
(* cell of an entity's wide table, the build fails and writes no table for *)
(* that entity: it never keeps one of the two values and never combines    *)
(* them.  This holds of the builders of main.py and of the pivots of       *)
(* process_saic.py.                                                        *)
(***************************************************************************)
C14_DuplicateKeyFails == C14_MainFails /\ C14_SaicFails

\* The tables that the builders of main.py have written.
BuiltTables ==
    {built.files[k] : k \in DOMAIN built.files} \cup {reg_files[i].df : i \in 1..Len(reg_files)}

\* A row that carries a total label: 'Total Nacional', 'Total Tamaulipas',
\* 'Total <municipality>', 'Total <region>'.
IsTotalLabel(label) == StartsWith(label, TotalPrefix)

HasTotalRow(df) == \E i \in 1..Len(df.rows) : IsTotalLabel(df.rows[i].label)

(***************************************************************************)
(* C15, as stated.  In every wide table written by main.py, the row that   *)
(* carries the total label is the final row of the table.                  *)
(***************************************************************************)
C15_TotalIsFinalRow ==
    \A df \in BuiltTables : HasTotalRow(df) => IsTotalLabel(df.rows[Len(df.rows)].label)

(***************************************************************************)
(* C15, amended.  In every wide table written by main.py, the row that     *)
(* carries the total label comes after every other activity row, wherever  *)
(* it stood in the input, and is followed by the checksum row alone, which *)
(* is the final row of the table.                                          *)
(***************************************************************************)
C15_TotalBeforeChecksum ==
    \A df \in BuiltTables : \A i \in 1..Len(df.rows) :
        IsTotalLabel(df.rows[i].label)
            => /\ i = Len(df.rows) - 1
               /\ df.rows[Len(df.rows)].label = ChecksumLabel

\* The national table of a source whose first record is the total and that
\* has an activity whose label comes after the total label.
C15_Witness ==
    /\ built.by = "national"
    /\ built.status = "written"
    /\ Len(src_recs) = 3
    /\ src_recs[1].act = LabelTotalNacional
    /\ src_recs[1].ent = "00 Total Nacional"
    /\ \E df \in BuiltTables :
          /\ Len(df.rows) = 4
          /\ df.rows[2].label = LabelZona
          /\ df.rows[3].label = LabelTotalNacionalUpper
          /\ df.rows[4].label = ChecksumLabel

\* The position of the first record of an activity in a list of records.
FirstSeen(recs, act) == CHOOSE i \in 1..Len(recs) : recs[i].act = act /\ \A j \in 1..(i - 1) : recs[j].act # act

\* The records of the source that a builder of one entity reads.
EntityRecs ==
    IF built.by = "national" THEN NationRecs(src_recs)
    ELSE IF built.by = "state" THEN StateRecs(src_recs)
    ELSE <<>>

(***************************************************************************)
(* C17.  In the national and state tables of main.py, the rows other than  *)
(* the total row appear in the order in which their activities first       *)
(* appear in the source records.                                           *)
(***************************************************************************)
C17_RowsInSourceOrder ==
    (built.by \in {"national", "state"} /\ built.status = "written") =>
        \A df \in {built.files[k] : k \in DOMAIN built.files} :
            \A i, j \in 1..Len(df.rows) :
                (/\ i < j
                 /\ \E r \in 1..Len(EntityRecs) : EntityRecs[r].act = df.rows[i].label
                 /\ \E r \in 1..Len(EntityRecs) : EntityRecs[r].act = df.rows[j].label)
                    => FirstSeen(EntityRecs, df.rows[i].label) < FirstSeen(EntityRecs, df.rows[j].label)

\* The metric code and the period of a column name code_period.
CodeOf(col) == SplitFirst(col, "_")[1]

PeriodOf(col) == IntOf(SplitFirst(col, "_")[2])

(***************************************************************************)
(* C16.  In every wide table written, the columns after the activity-label *)
(* column are ordered by metric code (lexicographic), then by period       *)
(* (ascending), for every set of metric codes, two codes where one is a    *)
(* prefix of the other included: the sort by whole names of the regional   *)
(* builder gives the order of the (code, period) sort of the others.       *)
(***************************************************************************)
C16_ColumnsByCodeThenPeriod ==
    \A df \in BuiltTables : \A i, j \in 1..Len(df.cols) :
        i < j => \/ StrLess(CodeOf(df.cols[i]), CodeOf(df.cols[j]))
                 \/ /\ CodeOf(df.cols[i]) = CodeOf(df.cols[j])
                    /\ PeriodOf(df.cols[i]) < PeriodOf(df.cols[j])

\* The municipalities of a region that have a file.
FilesOfRegion(region) ==
    {m \in DOMAIN built.files :
        \E n \in 1..Len(regions_map) :
            /\ regions_map[n].region = region
            /\ \E k \in 1..Len(regions_map[n].municipios) : regions_map[n].municipios[k] = m}

(***************************************************************************)
(* C18.  The regional table has one sector row for every sector activity   *)
(* that appears in the table of at least one municipality of the region,   *)
(* not only for the activities of the first municipality loaded.          *)
(***************************************************************************)
C18_SectorRowsOfEveryMunicipality ==
    reg_stage = "done" =>
        \A r \in 1..Len(reg_files) : \A m \in FilesOfRegion(reg_files[r].region) :
            \A i \in 1..Len(built.files[m].rows) :
                IsSector(built.files[m].rows[i].label)
                    => \E j \in 1..Len(reg_files[r].df.rows) :
                          reg_files[r].df.rows[j].label = built.files[m].rows[i].label

\* The cell the percentage stage read in the last row of a column.
TotalCellRead(c) == pct_file.rows[Len(pct_file.rows)].cells[c]

(***************************************************************************)
(* C19.  For any input table, process_csv_last_row writes exactly 100.0 in *)
(* every numeric column of the last (total) row, whatever the value of the *)
(* total cell was, 0 and a missing value included.                         *)
(***************************************************************************)
C19_LastRowIsHundred ==
    pct_out.status = "written" =>
        /\ Len(pct_out.df.rows) = Len(pct_file.rows)
        /\ pct_out.df.cols = pct_file.cols
        /\ \A c \in ColSet(pct_file.cols) :
              pct_out.df.rows[Len(pct_out.df.rows)].cells[c] = Ratio(100 * Unit)

\* A table written whose total cell was 0 in one column and missing in
\* another run.
C19_Witness ==
    /\ pct_out.status = "written"
    /\ Len(pct_out.df.rows) >= 2
    /\ pct_file.cols = <<ColA, ColB>>
    /\ TotalCellRead(ColA) = NaN
    /\ TotalCellRead(ColB) = Fl(0)
    /\ pct_out.df.rows[Len(pct_out.df.rows)].cells[ColA] = Ratio(100 * Unit)
    /\ pct_out.df.rows[Len(pct_out.df.rows)].cells[ColB] = Ratio(100 * Unit)

(***************************************************************************)
(* C20.  In process_csv_last_row, in a column whose total cell (last row)  *)
(* is 0, the percentage of every other row is Undefined (a missing value): *)
(* never an infinity and never a number.                                   *)
(***************************************************************************)
C20_ZeroTotalIsUndefined ==
    pct_out.status = "written" =>
        \A c \in ColSet(pct_file.cols) :
            TotalCellRead(c) = Fl(0)
                => \A i \in 1..(Len(pct_out.df.rows) - 1) : pct_out.df.rows[i].cells[c] = RatioNaN

\* A number of 2 decimals that is nearest to 100 * x / total.
IsPercentOf(r, x, total) ==
    /\ ~r.nan
    /\ ~r.inf
    /\ r.v % (Unit \div 100) = 0
    /\ LET h == r.v \div (Unit \div 100)
           d == h * total.v - 100 * 100 * x.v
       IN  2 * (IF d < 0 THEN 0 - d ELSE d) <= total.v

(***************************************************************************)
(* C21.  In process_csv_last_row, for every column with a non-zero total,  *)
(* each row other than the last becomes 100 times its value divided by the *)
(* value of the last row of the same column, rounded to 2 decimals (a      *)
(* missing value stays missing), and the activity-label column is left     *)
(* unchanged.                                                              *)
(***************************************************************************)
C21_PercentOfLastRow ==
    pct_out.status = "written" =>
        /\ Len(pct_out.df.rows) = Len(pct_file.rows)
        /\ \A i \in 1..Len(pct_file.rows) : pct_out.df.rows[i].label = pct_file.rows[i].label
        /\ \A c \in ColSet(pct_file.cols) :
              (~TotalCellRead(c).nan /\ TotalCellRead(c).v # 0) =>
                  \A i \in 1..(Len(pct_file.rows) - 1) :
                      IF pct_file.rows[i].cells[c].nan
                      THEN pct_out.df.rows[i].cells[c] = RatioNaN
                      ELSE IsPercentOf(pct_out.df.rows[i].cells[c], pct_file.rows[i].cells[c],
                                       TotalCellRead(c))

\* The rows 5 and 15 with the total 20 give 25.0, 75.0 and 100.0.
C21_Witness ==
    /\ pct_file = PctExample
    /\ pct_out.status = "written"
    /\ pct_out.df.rows[1] = Row(RowLabel(1), [c \in {ColA} |-> Ratio(25 * Unit)])
    /\ pct_out.df.rows[2] = Row(RowLabel(2), [c \in {ColA} |-> Ratio(75 * Unit)])
    /\ pct_out.df.rows[3] = Row(LabelTotal, [c \in {ColA} |-> Ratio(100 * Unit)])

\* The scripts that run_all.py has started in this run, in order.
Started == SelectSeq(run_stdout, LAMBDA l : l.kind = "running")

\* The scripts that have terminated in this run, in order.
Ended == SelectSeq(run_stdout, LAMBDA l : l.kind \in {"finished", "failed"})

\* The order of the stages.
StageOrder == <<"clear.py", "process_saic.py", "divide.py", "regional.py", "divide2.py", "final.py">>

(***************************************************************************)
(* C30.  run_all.py starts the stages strictly in the order clear,         *)
(* process_saic, divide, regional, divide2, final; each stage is started   *)
(* at most once in a run and only after the previous stage has terminated, *)
(* so no two stages ever run at the same time.                             *)
(***************************************************************************)
C30_StagesInOrder ==
    /\ Len(Started) <= Len(StageOrder)
    /\ \A i \in 1..Len(Started) : Started[i].about[1] = StageOrder[i]
    /\ Len(Ended) <= Len(Started)
    /\ \A i \in 1..Len(Ended) : Ended[i].about[1] = StageOrder[i]
    /\ Len(Started) - Len(Ended) <= 1
    /\ (run_child # "") <=> (Len(Started) = Len(Ended) + 1)
    /\ run_child # "" => run_child = StageOrder[Len(Started)]
    /\ \A i, j \in 1..Len(run_stdout) :
          (/\ run_stdout[i].kind = "running"
           /\ run_stdout[j].kind \in {"finished", "failed"}
           /\ \E a, b \in 1..Len(StageOrder) :
                 a < b /\ StageOrder[a] = run_stdout[j].about[1] /\ StageOrder[b] = run_stdout[i].about[1])
              => j < i

\* A run in which the six stages have run, the divide stage with its files
\* in place.
C30_Witness ==
    /\ Len(Ended) = Len(StageOrder)
    /\ run_child = ""
    /\ File("proportional_national_state", "", "A111A", "proportional") \in DOMAIN run_fs.files

\* run_all.py has run to its end and has not been started again.
RunEnded == run_i = Len(scripts) + 1

(***************************************************************************)
(* C26.  Re-running the pipeline is idempotent: for an unchanged input and *)
(* any prior content of output/csv, the files under output/csv and their   *)
(* contents after a run of run_all.py, which starts with clear.py, are the *)
(* same after it has run again.                                            *)
(***************************************************************************)
C26_RerunIsIdempotent == (RunEnded /\ run_count >= 2) => run_fs = run_first

\* A second run has ended on an input whose tables were written and divided
\* in the first, over an output area that held an entry clear.py leaves.
C26_Witness ==
    /\ RunEnded
    /\ run_count = 2
    /\ run_fs = run_first
    /\ "pipe" \in run_fs.others
    /\ File("00_Total_Nacional", "", "", "00_Total_Nacional") \in DOMAIN run_fs.files
    /\ File("prop_state_regions", "Sur", "A111A", "proportional") \in DOMAIN run_fs.files
    /\ File("proportional_region_weight", "Sur", "A111A", "weight") \in DOMAIN run_fs.files

\* The place of the line that tells how process_saic.py ended, 0 when it
\* has not ended.
SaicEndedAt ==
    IF \E i \in 1..Len(run_stdout) :
          run_stdout[i].kind \in {"finished", "failed"} /\ run_stdout[i].about[1] = "process_saic.py"
    THEN CHOOSE i \in 1..Len(run_stdout) :
             run_stdout[i].kind \in {"finished", "failed"} /\ run_stdout[i].about[1] = "process_saic.py"
    ELSE 0

(***************************************************************************)
(* C23.  When a required identifying column (year, entity, municipality or *)
(* activity) is missing from the input records, ingestion fails and the    *)
(* run is aborted: no later pipeline stage is started after the failure.   *)
(***************************************************************************)
C23_MissingColumnAborts ==
    (run_input.missing # "" /\ SaicEndedAt # 0) =>
        /\ run_stdout[SaicEndedAt].kind = "failed"
        /\ \A j \in (SaicEndedAt + 1)..Len(run_stdout) : run_stdout[j].kind # "running"

\* The sources of a variable of divide.py, and of a (variable, region) of
\* divide2.py, are both there.
DivideSources(v) ==
    /\ File("00_Total_Nacional", "", v, "Nacional") \in DOMAIN run_fs.files
    /\ File("28_Tamaulipas", "", v, "Tamaulipas") \in DOMAIN run_fs.files

Divide2Sources(v, r) ==
    /\ File("28_Tamaulipas", "", v, "Tamaulipas") \in DOMAIN run_fs.files
    /\ File("28_Regional", r, v, r) \in DOMAIN run_fs.files

Warned(script, v, r) ==
    \E i \in 1..Len(run_stdout) :
        run_stdout[i].kind = "warning" /\ run_stdout[i].about = <<script, v, r>>

HasEnded(script) ==
    \E i \in 1..Len(run_stdout) :
        run_stdout[i].kind \in {"finished", "failed"} /\ run_stdout[i].about[1] = script

\* divide.py and divide2.py: a combination without its sources is warned
\* about and has no output, every other combination has its output.
C22_DivideLoops ==
    /\ HasEnded("divide.py") =>
          \A k \in 1..Len(DivideVariables) :
              LET v == DivideVariables[k]
                  out == File("proportional_national_state", "", v, "proportional")
              IN  IF DivideSources(v)
                  THEN out \in DOMAIN run_fs.files /\ ~Warned("divide.py", v, "")
                  ELSE out \notin DOMAIN run_fs.files /\ Warned("divide.py", v, "")
    /\ HasEnded("divide2.py") =>
          \A k \in 1..Len(DivideVariables) : \A n \in 1..Len(REGIONAL_DIRS) :
              LET v == DivideVariables[k]
                  r == REGIONAL_DIRS[n]
                  out == File("prop_state_regions", r, v, "proportional")
              IN  IF Divide2Sources(v, r)
                  THEN out \in DOMAIN run_fs.files /\ ~Warned("divide2.py", v, r)
                  ELSE out \notin DOMAIN run_fs.files /\ Warned("divide2.py", v, r)

\* The municipality loading loop of build_tam_regional_wide_csvs: a
\* municipality of the region map without a file is warned about.
C22_RegionalLoading ==
    reg_stage = "done" =>
        \A n \in 1..Len(regions_map) : \A k \in 1..Len(regions_map[n].municipios) :
            ~FileExists(mun_files, regions_map[n].municipios[k])
                => \E i \in 1..Len(reg_stdout) :
                      /\ reg_stdout[i].kind = "warning"
                      /\ reg_stdout[i].about = regions_map[n].municipios[k]

(***************************************************************************)
(* C22.  When a required source table for a (metric, geographic unit)      *)
(* combination is missing, the stage logs a warning for that combination,  *)
(* writes no output for it, and still processes every remaining            *)
(* combination: in the loops of divide.py and divide2.py and in the        *)
(* municipality loading loop of build_tam_regional_wide_csvs.              *)
(***************************************************************************)
C22_MissingSourceIsWarnedAndSkipped == C22_DivideLoops /\ C22_RegionalLoading

(***************************************************************************)
(* C29.  The two cell parsers of main.py agree: for every cell value       *)
(* (missing, number, or any text), parse_val of _append_checksum_row and   *)
(* parse_cell of build_tam_regional_wide_csvs return the same base and the *)
(* same censoring count.                                                   *)
(***************************************************************************)
C29_ParsersAgree ==
    /\ parsed = parse_val(cell)
    /\ parse_cell(cell).base = parsed.base
    /\ parse_cell(cell).c = parsed.k

\* The records of a municipality that stand behind a cell of its file: those
\* of the activity of the row and of the year of the column.
RecordsBehind(m, label, col) ==
    SelectSeq(MunRecs(src_recs, m),
              LAMBDA r : /\ PeriodOf(col) = r.year
                         /\ r.act = (IF label = TotalPrefix \o MunText(m) THEN LabelTotalMunicipal
                                                                           ELSE label))

\* The rows of a municipal file that come from the source: all but the
\* checksum row.
SourceRows(df) == {i \in 1..Len(df.rows) : df.rows[i].label # ChecksumLabel}

MunicipalWritten == built.by = "municipal" /\ built.status = "written"

(***************************************************************************)
(* C24.  The system only propagates censoring: a censoring annotation (a   *)
(* 'C' marker or a non-zero censoring count) appears in an output cell     *)
(* only when at least one input cell contributing to that output cell      *)
(* already carried a censoring annotation.                                 *)
(***************************************************************************)
C24_CensoringOnlyPropagated ==
    MunicipalWritten =>
        \A m \in DOMAIN built.files : \A i \in SourceRows(built.files[m]) :
            \A c \in ColSet(built.files[m].cols) :
                parse_val(built.files[m].rows[i].cells[c]).k > 0
                    => \E n \in 1..Len(RecordsBehind(m, built.files[m].rows[i].label, c)) :
                          parse_val(RecordsBehind(m, built.files[m].rows[i].label, c)[n].val).k > 0

\* What the marking leaves in a cell, from the records behind it.
MarkedAs(label, col, recs) ==
    IF recs # <<>> /\ ~IsNA(recs[1].val) THEN recs[1].val
    ELSE IF ~IsSector(label) \/ PeriodOf(col) \notin {2003, 2008, 2013, 2018, 2023} THEN NACell
    ELSE IF recs # <<>> THEN StrCell(<<"C">>)
    ELSE StrCell(<<"N", "/", "A">>)

(***************************************************************************)
(* C28.  In build_tam_municipal_wide_csvs, for every sector row and every  *)
(* column whose period is in {2003, 2008, 2013, 2018, 2023}: a cell with   *)
(* no value becomes 'C' when the source holds a record for that            *)
(* municipality, year and activity, and 'N/A' when it holds none; a cell   *)
(* that has a value is left unchanged, and the cells of the rows that are  *)
(* no sector rows are left unchanged.                                      *)
(***************************************************************************)
C28_MarkingOfMissingCells ==
    MunicipalWritten =>
        \A m \in DOMAIN built.files : \A i \in SourceRows(built.files[m]) :
            \A c \in ColSet(built.files[m].cols) :
                built.files[m].rows[i].cells[c]
                    = MarkedAs(built.files[m].rows[i].label, c,
                               RecordsBehind(m, built.files[m].rows[i].label, c))

\* The file of Altamira with the three cases: a record without a value, no
\* record, and a value; and a total row without a value in a year.
C28_Witness ==
    /\ MunicipalWritten
    /\ "003 Altamira" \in DOMAIN built.files
    /\ \E i, j, t \in SourceRows(built.files["003 Altamira"]) :
          LET df == built.files["003 Altamira"]
          IN  /\ df.rows[i].label = LabelSectorB
              /\ df.rows[i].cells[ColA] = StrCell(<<"C">>)
              /\ \E c \in ColSet(df.cols) :
                    /\ PeriodOf(c) = 2023
                    /\ df.rows[i].cells[c] = StrCell(<<"N", "/", "A">>)
                    /\ df.rows[j].label = LabelSectorA
                    /\ df.rows[j].cells[c] = NumCell(10000)
                    /\ df.rows[t].label = TotalPrefix \o MunText("003 Altamira")
                    /\ df.rows[t].cells[c] = NACell

\* The municipalities of the state: the one at place n has the code n.
StateMunicipalities ==
    << "001 Abasolo", "002 Aldama", "003 Altamira", "004 Antiguo Morelos",
       "005 Burgos", "006 Bustamante", "007 Camargo", "008 Casas",
       "009 Ciudad Madero", "010 Cruillas", "011 Gómez Farías", "012 González",
       "013 Güémez", "014 Guerrero", "015 Gustavo Díaz Ordaz", "016 Hidalgo",
       "017 Jaumave", "018 Jiménez", "019 Llera", "020 Mainero",
       "021 El Mante", "022 Matamoros", "023 Méndez", "024 Mier",
       "025 Miguel Alemán", "026 Miquihuana", "027 Nuevo Laredo", "028 Nuevo Morelos",
       "029 Ocampo", "030 Padilla", "031 Palmillas", "032 Reynosa",
       "033 Río Bravo", "034 San Carlos", "035 San Fernando", "036 San Nicolás",
       "037 Soto la Marina", "038 Tampico", "039 Tula", "040 Valle Hermoso",
       "041 Victoria", "042 Villagrán", "043 Xicoténcatl" >>

\* The municipalities of a copy of the region map, with their places.
Places(map) == UNION {{<<n, k>> : k \in 1..Len(map[n].municipios)} : n \in 1..Len(map)}

IsPartition(map) ==
    /\ \A p, q \in Places(map) :
          p # q => map[p[1]].municipios[p[2]] # map[q[1]].municipios[q[2]]
    /\ \A n, o \in 1..Len(map) : n # o => map[n].region # map[o].region
    /\ {map[p[1]].municipios[p[2]] : p \in Places(map)}
          = {StateMunicipalities[i] : i \in 1..Len(StateMunicipalities)}

\* A copy of the map, as a set of regions with their sets of municipalities.
AsSets(map) ==
    {[region |-> map[n].region,
      municipios |-> {map[n].municipios[k] : k \in 1..Len(map[n].municipios)}] : n \in 1..Len(map)}

(***************************************************************************)
(* C25.  The region map is a partition of the state's municipalities: no   *)
(* municipality appears in two regions or twice in one region, the union   *)
(* of the seven regions is exactly the 43 municipalities with codes 001 to *)
(* 043, and the three copies of the map (main.py, process_saic.py,         *)
(* legacy_main.py) hold the same region names with the same municipality   *)
(* sets.  Every regional file written is that of a region of the map.      *)
(***************************************************************************)
C25_RegionMapIsPartition ==
    /\ Len(regions_map) = 7
    /\ Len(StateMunicipalities) = 43
    /\ Cardinality({StateMunicipalities[i] : i \in 1..Len(StateMunicipalities)}) = 43
    /\ IsPartition(regions_map)
    /\ AsSets(regions) = AsSets(regions_map)
    /\ AsSets(legacy_regions_map) = AsSets(regions_map)
    /\ \A r \in 1..Len(reg_files) :
          \E n \in 1..Len(regions_map) : regions_map[n].region = reg_files[r].region

\* The regional builder has gone through the map and written the table of
\* the region of two municipalities that have files.
C25_Witness ==
    /\ reg_stage = "done"
    /\ "002 Aldama" \in DOMAIN built.files
    /\ "003 Altamira" \in DOMAIN built.files
    /\ \E r \in 1..Len(reg_files) : reg_files[r].region = <<"S", "u", "r">>

\* The municipalities of a region of the map.
MunicipiosOf(region) ==
    LET n == CHOOSE k \in 1..Len(regions_map) : regions_map[k].region = region
    IN  {regions_map[n].municipios[k] : k \in 1..Len(regions_map[n].municipios)}

\* The 'Total municipal' records that the dataset holds for a region.
TotalsOf(region) ==
    SelectSeq(df_saic.recs,
              LAMBDA r : /\ r.ent = "28 Tamaulipas"
                         /\ r.act = "Total municipal"
                         /\ r.mun \in MunicipiosOf(region))

\* The place of the Total row in a regional table.
TotalAt(f) ==
    CHOOSE i \in 1..Len(f.df.rows) : f.df.rows[i].label = TotalPrefix \o f.region

C10_DivideNeverRaises ==
    /\ ratio_out.status # "raised"
    /\ \A i \in 1..Len(ratio_out.df.rows) : \A c \in ColSet(ratio_out.df.cols) :
          ~ratio_out.df.rows[i].cells[c].inf

=============================================================================
